---- MODULE Spec2Model ----
(***************************************************************************)
(* Stromschlag: icon pack export (core/exporters.py), project descriptors  *)
(* (core/project_io.py), data model (core/models.py) and helpers           *)
(* (core/utils.py).                                                        *)
(*                                                                         *)
(* Strings are sequences of one-character strings, paths are sequences of  *)
(* path components, the filesystem is a set of directories plus a function *)
(* from file paths to contents.                                            *)
(***************************************************************************)
EXTENDS Integers, Sequences, FiniteSets, TLC

VARIABLES
    dirs,        \* directories that exist on disk (set of paths)
    files,       \* regular files on disk: path -> content
    pc,          \* position inside export_icon_pack
    settings,    \* the PackSettings argument of the running call
    icon_list,   \* icon_list = list(icons) of the running call
    targets,     \* the list of _ThemeTarget built by _prepare_theme_targets
    idx,         \* index of the icon the copy loop is at
    result,      \* outcome of the last export_icon_pack call
    calls,       \* number of export_icon_pack calls started
    rt,          \* state of the save_project / load_project round trip
    prev,        \* the arguments of the previous call and the disk it left
    sl,          \* argument and results of slugify
    tl,          \* the theme tree and the results of the theme loader
    inst,        \* arguments and results of install_icon_pack
    ed           \* the editor window: working set, flags, recent projects

vars == <<dirs, files, pc, settings, icon_list, targets, idx, result, calls,
          rt, prev, sl, tl, inst, ed>>

exportVars == <<dirs, files, pc, settings, icon_list, targets, idx, result, calls, prev>>

\* the state of the functions an export does not touch
auxVars == <<rt, sl, tl, inst, ed>>

----------------------------------------------------------------------------
(* Bounds *)

MaxIcons == 2

\* longest argument of slugify
MaxSlugLen == 3

\* largest limit passed to _collect_icon_entries
MaxLimit == 3

\* longest list of extra search paths
MaxExtra == 2

\* longest list of install roots
MaxRoots == 2

\* number of export_icon_pack calls made one after another
MaxCalls == 2

\* largest working set of icons in the editor
MaxWorking == 3

\* longest text typed into the sizes field of the metadata dialog
MaxSizesText == 4

\* number of project directories that can be recorded as recent
MaxRecentPaths == 11

\* number of operations on entries that are in the recent list
MaxRecentOps == 3

\* number of export_icon_pack calls made from the window: the window is
\* followed until the last of them has ended
MaxExports == 1

----------------------------------------------------------------------------
(* Characters and strings *)

LowerLetters ==
    {"a","b","c","d","e","f","g","h","i","j","k","l","m",
     "n","o","p","q","r","s","t","u","v","w","x","y","z"}

Digits == {"0","1","2","3","4","5","6","7","8","9"}

\* the characters str.strip() removes (str.isspace()); a character without
\* a TLA+ escape is written "U+" and its code point
Whitespace ==
    {" ", "\t", "\n", "\r", "\f", "U+000B", "U+001C", "U+001D", "U+001E", "U+001F",
     "U+0085", "U+00A0", "U+1680", "U+2000", "U+2001", "U+2002", "U+2003", "U+2004",
     "U+2005", "U+2006", "U+2007", "U+2008", "U+2009", "U+200A", "U+2028", "U+2029",
     "U+202F", "U+205F", "U+3000"}

HexDigits == "0123456789ABCDEF"

\* n in upper-case hexadecimal digits, at least `width` of them
RECURSIVE Hex(_, _)
Hex(n, width) ==
    IF n = 0 /\ width <= 0 THEN ""
    ELSE Hex(n \div 16, width - 1) \o SubSeq(HexDigits, (n % 16) + 1, (n % 16) + 1)

\* the number a string of hexadecimal digits stands for
RECURSIVE HexValue(_)
HexValue(h) ==
    IF h = "" THEN 0
    ELSE LET last == SubSeq(h, Len(h), Len(h))
         IN  16 * HexValue(SubSeq(h, 1, Len(h) - 1))
                 + (CHOOSE v \in 0..15 : SubSeq(HexDigits, v + 1, v + 1) = last)

\* the characters U+0020..U+005F and U+0061..U+007E, each written as itself;
\* the grave accent U+0060, which cannot stand in a TLA+ string, is written
\* by its code point
PrintableLow == " !\"#$%&'()*+,-./0123456789:;<=>?@ABCDEFGHIJKLMNOPQRSTUVWXYZ[\\]^_"

PrintableHigh == "abcdefghijklmnopqrstuvwxyz{|}~"

\* chr(n) as the model writes a character: itself when it is printable ASCII
\* or has a TLA+ escape, "U+" and the code point otherwise
chr(n) ==
    IF n >= 32 /\ n <= 95 THEN SubSeq(PrintableLow, n - 31, n - 31)
    ELSE IF n >= 97 /\ n <= 126 THEN SubSeq(PrintableHigh, n - 96, n - 96)
    ELSE CASE n = 9 -> "\t" [] n = 10 -> "\n" [] n = 12 -> "\f" [] n = 13 -> "\r"
           [] OTHER -> "U+" \o Hex(n, 4)

\* the rows of a table written as one string of rows of `width` digits
Rows(table, width) ==
    {SubSeq(table, (k - 1) * width + 1, k * width) : k \in 1..(Len(table) \div width)}

\* the number in the digits from..to of a row
Field(r, from, to) == HexValue(SubSeq(r, from, to))

\* the code points first, first + step, ..., last of a row of LowerRanges
RangePoints(r) ==
    {n \in Field(r, 1, 5)..Field(r, 6, 10) : (n - Field(r, 1, 5)) % Field(r, 11, 11) = 0}

\* the simple lower-case mapping of the Unicode database of the interpreter
\* (Python 3.11, Unicode 14).  A row is sixteen hexadecimal digits: first
\* (5), last (5), step (1) and the lower-case form of first (5); it stands
\* for chr(n).lower() = chr(n + lower - first) for n = first, first + step,
\* ..., last
LowerRanges ==
    "000410005A100061000C0000D61000E0000D8000DE1000F8001000012E2001010013200136200133001390014720013A"
    \o "0014A0017620014B00178001781000FF001790017D20017A001810018110025300182001842001830018600186100254"
    \o "0018700187100188001890018A1002560018B0018B10018C0018E0018E1001DD0018F0018F100259001900019010025B"
    \o "001910019110019200193001931002600019400194100263001960019610026900197001971002680019800198100199"
    \o "0019C0019C10026F0019D0019D1002720019F0019F100275001A0001A42001A1001A6001A6100280001A7001A71001A8"
    \o "001A9001A9100283001AC001AC1001AD001AE001AE100288001AF001AF1001B0001B1001B210028A001B3001B52001B4"
    \o "001B7001B7100292001B8001B81001B9001BC001BC1001BD001C4001C41001C6001C5001C51001C6001C7001C71001C9"
    \o "001C8001C81001C9001CA001CA1001CC001CB001DB2001CC001DE001EE2001DF001F1001F11001F3001F2001F42001F3"
    \o "001F6001F6100195001F7001F71001BF001F80021E2001F9002200022010019E00222002322002230023A0023A102C65"
    \o "0023B0023B10023C0023D0023D10019A0023E0023E102C66002410024110024200243002431001800024400244100289"
    \o "002450024510028C002460024E200247003700037220037100376003761003770037F0037F1003F300386003861003AC"
    \o "003880038A1003AD0038C0038C1003CC0038E0038F1003CD00391003A11003B1003A3003AB1003C3003CF003CF1003D7"
    \o "003D8003EE2003D9003F4003F41003B8003F7003F71003F8003F9003F91003F2003FA003FA1003FB003FD003FF10037B"
    \o "004000040F100450004100042F10043000460004802004610048A004BE20048B004C0004C01004CF004C1004CD2004C2"
    \o "004D00052E2004D10053100556100561010A0010C5102D00010C7010C7102D27010CD010CD102D2D013A0013EF10AB70"
    \o "013F0013F51013F801C9001CBA1010D001CBD01CBF1010FD01E0001E94201E0101E9E01E9E1000DF01EA001EFE201EA1"
    \o "01F0801F0F101F0001F1801F1D101F1001F2801F2F101F2001F3801F3F101F3001F4801F4D101F4001F5901F5F201F51"
    \o "01F6801F6F101F6001F8801F8F101F8001F9801F9F101F9001FA801FAF101FA001FB801FB9101FB001FBA01FBB101F70"
    \o "01FBC01FBC101FB301FC801FCB101F7201FCC01FCC101FC301FD801FD9101FD001FDA01FDB101F7601FE801FE9101FE0"
    \o "01FEA01FEB101F7A01FEC01FEC101FE501FF801FF9101F7801FFA01FFB101F7C01FFC01FFC101FF302126021261003C9"
    \o "0212A0212A10006B0212B0212B1000E5021320213210214E021600216F1021700218302183102184024B6024CF1024D0"
    \o "02C0002C2F102C3002C6002C60102C6102C6202C6210026B02C6302C63101D7D02C6402C6410027D02C6702C6B202C68"
    \o "02C6D02C6D10025102C6E02C6E10027102C6F02C6F10025002C7002C7010025202C7202C72102C7302C7502C75102C76"
    \o "02C7E02C7F10023F02C8002CE2202C8102CEB02CED202CEC02CF202CF2102CF30A6400A66C20A6410A6800A69A20A681"
    \o "0A7220A72E20A7230A7320A76E20A7330A7790A77B20A77A0A77D0A77D101D790A77E0A78620A77F0A78B0A78B10A78C"
    \o "0A78D0A78D1002650A7900A79220A7910A7960A7A820A7970A7AA0A7AA1002660A7AB0A7AB10025C0A7AC0A7AC100261"
    \o "0A7AD0A7AD10026C0A7AE0A7AE10026A0A7B00A7B010029E0A7B10A7B11002870A7B20A7B210029D0A7B30A7B310AB53"
    \o "0A7B40A7C220A7B50A7C40A7C410A7940A7C50A7C51002820A7C60A7C6101D8E0A7C70A7C920A7C80A7D00A7D010A7D1"
    \o "0A7D60A7D820A7D70A7F50A7F510A7F60FF210FF3A10FF411040010427110428104B0104D31104D8105701057A110597"
    \o "1057C1058A1105A31058C105921105B310594105951105BB10C8010CB2110CC0118A0118BF1118C016E4016E5F116E60"
    \o "1E9001E92111E922"

\* the function that a set of <<key, value>> pairs is
AsFunction(pairs) ==
    [c \in {p[1] : p \in pairs} |-> (CHOOSE p \in pairs : p[1] = c)[2]]

LowerPairs ==
    UNION {{<<chr(n), <<chr(n + Field(r, 12, 16) - Field(r, 1, 5))>>>> : n \in RangePoints(r)} :
              r \in Rows(LowerRanges, 16)}
        \cup {<<"U+0130", <<"i", "U+0307">>>>}

\* str.lower() of one character that it changes, as a string; the one
\* character with a longer lower-case form is U+0130 (LATIN CAPITAL LETTER I
\* WITH DOT ABOVE)
LowerOf == AsFunction(LowerPairs)

\* the characters of the rows of a table of <<first (5), last (5)>> rows
CharsOf(table) ==
    UNION {{chr(n) : n \in Field(r, 1, 5)..Field(r, 6, 10)} : r \in Rows(table, 10)}

\* the characters with the property Cased, as rows of first and last code
\* point
CasedRanges ==
    "000410005A000610007A000AA000AA000B5000B5000BA000BA000C0000D6000D8000F6000F8001BA001BC001BF001C400293"
    \o "00295002B8002C0002C1002E0002E40034500345003700037300376003770037A0037D0037F0037F0038600386003880038A"
    \o "0038C0038C0038E003A1003A3003F5003F7004810048A0052F00531005560056000588010A0010C5010C7010C7010CD010CD"
    \o "010D0010FA010FD010FF013A0013F5013F8013FD01C8001C8801C9001CBA01CBD01CBF01D0001DBF01E0001F1501F1801F1D"
    \o "01F2001F4501F4801F4D01F5001F5701F5901F5901F5B01F5B01F5D01F5D01F5F01F7D01F8001FB401FB601FBC01FBE01FBE"
    \o "01FC201FC401FC601FCC01FD001FD301FD601FDB01FE001FEC01FF201FF401FF601FFC02071020710207F0207F020900209C"
    \o "021020210202107021070210A021130211502115021190211D0212402124021260212602128021280212A0212D0212F02134"
    \o "02139021390213C0213F02145021490214E0214E021600217F0218302184024B6024E902C0002CE402CEB02CEE02CF202CF3"
    \o "02D0002D2502D2702D2702D2D02D2D0A6400A66D0A6800A69D0A7220A7870A78B0A78E0A7900A7CA0A7D00A7D10A7D30A7D3"
    \o "0A7D50A7D90A7F50A7F60A7F80A7FA0AB300AB5A0AB5C0AB680AB700ABBF0FB000FB060FB130FB170FF210FF3A0FF410FF5A"
    \o "104001044F104B0104D3104D8104FB105701057A1057C1058A1058C10592105941059510597105A1105A3105B1105B3105B9"
    \o "105BB105BC1078010780107831078510787107B0107B2107BA10C8010CB210CC010CF2118A0118DF16E4016E7F1D4001D454"
    \o "1D4561D49C1D49E1D49F1D4A21D4A21D4A51D4A61D4A91D4AC1D4AE1D4B91D4BB1D4BB1D4BD1D4C31D4C51D5051D5071D50A"
    \o "1D50D1D5141D5161D51C1D51E1D5391D53B1D53E1D5401D5441D5461D5461D54A1D5501D5521D6A51D6A81D6C01D6C21D6DA"
    \o "1D6DC1D6FA1D6FC1D7141D7161D7341D7361D74E1D7501D76E1D7701D7881D78A1D7A81D7AA1D7C21D7C41D7CB1DF001DF09"
    \o "1DF0B1DF1E1E9001E9431F1301F1491F1501F1691F1701F189"

Cased == CharsOf(CasedRanges)

\* the characters with the property Case_Ignorable, as rows of first and
\* last code point
CaseIgnorableRanges ==
    "00027000270002E0002E0003A0003A0005E0005E0006000060000A8000A8000AD000AD000AF000AF000B4000B4000B7000B8"
    \o "002B00036F00374003750037A0037A00384003850038700387004830048900559005590055F0055F00591005BD005BF005BF"
    \o "005C1005C2005C4005C5005C7005C7005F4005F40060000605006100061A0061C0061C00640006400064B0065F0067000670"
    \o "006D6006DD006DF006E8006EA006ED0070F0070F0071100711007300074A007A6007B0007EB007F5007FA007FA007FD007FD"
    \o "008160082D008590085B00888008880089000891008980089F008C9009020093A0093A0093C0093C00941009480094D0094D"
    \o "0095100957009620096300971009710098100981009BC009BC009C1009C4009CD009CD009E2009E3009FE009FE00A0100A02"
    \o "00A3C00A3C00A4100A4200A4700A4800A4B00A4D00A5100A5100A7000A7100A7500A7500A8100A8200ABC00ABC00AC100AC5"
    \o "00AC700AC800ACD00ACD00AE200AE300AFA00AFF00B0100B0100B3C00B3C00B3F00B3F00B4100B4400B4D00B4D00B5500B56"
    \o "00B6200B6300B8200B8200BC000BC000BCD00BCD00C0000C0000C0400C0400C3C00C3C00C3E00C4000C4600C4800C4A00C4D"
    \o "00C5500C5600C6200C6300C8100C8100CBC00CBC00CBF00CBF00CC600CC600CCC00CCD00CE200CE300D0000D0100D3B00D3C"
    \o "00D4100D4400D4D00D4D00D6200D6300D8100D8100DCA00DCA00DD200DD400DD600DD600E3100E3100E3400E3A00E4600E4E"
    \o "00EB100EB100EB400EBC00EC600EC600EC800ECD00F1800F1900F3500F3500F3700F3700F3900F3900F7100F7E00F8000F84"
    \o "00F8600F8700F8D00F9700F9900FBC00FC600FC60102D010300103201037010390103A0103D0103E01058010590105E01060"
    \o "0107101074010820108201085010860108D0108D0109D0109D010FC010FC0135D0135F017120171401732017330175201753"
    \o "0177201773017B4017B5017B7017BD017C6017C6017C9017D3017D7017D7017DD017DD0180B0180F01843018430188501886"
    \o "018A9018A9019200192201927019280193201932019390193B01A1701A1801A1B01A1B01A5601A5601A5801A5E01A6001A60"
    \o "01A6201A6201A6501A6C01A7301A7C01A7F01A7F01AA701AA701AB001ACE01B0001B0301B3401B3401B3601B3A01B3C01B3C"
    \o "01B4201B4201B6B01B7301B8001B8101BA201BA501BA801BA901BAB01BAD01BE601BE601BE801BE901BED01BED01BEF01BF1"
    \o "01C2C01C3301C3601C3701C7801C7D01CD001CD201CD401CE001CE201CE801CED01CED01CF401CF401CF801CF901D2C01D6A"
    \o "01D7801D7801D9B01DFF01FBD01FBD01FBF01FC101FCD01FCF01FDD01FDF01FED01FEF01FFD01FFE0200B0200F0201802019"
    \o "020240202402027020270202A0202E0206002064020660206F02071020710207F0207F020900209C020D0020F002C7C02C7D"
    \o "02CEF02CF102D6F02D6F02D7F02D7F02DE002DFF02E2F02E2F03005030050302A0302D03031030350303B0303B030990309E"
    \o "030FC030FE0A0150A0150A4F80A4FD0A60C0A60C0A66F0A6720A6740A67D0A67F0A67F0A69C0A69F0A6F00A6F10A7000A721"
    \o "0A7700A7700A7880A78A0A7F20A7F40A7F80A7F90A8020A8020A8060A8060A80B0A80B0A8250A8260A82C0A82C0A8C40A8C5"
    \o "0A8E00A8F10A8FF0A8FF0A9260A92D0A9470A9510A9800A9820A9B30A9B30A9B60A9B90A9BC0A9BD0A9CF0A9CF0A9E50A9E6"
    \o "0AA290AA2E0AA310AA320AA350AA360AA430AA430AA4C0AA4C0AA700AA700AA7C0AA7C0AAB00AAB00AAB20AAB40AAB70AAB8"
    \o "0AABE0AABF0AAC10AAC10AADD0AADD0AAEC0AAED0AAF30AAF40AAF60AAF60AB5B0AB5F0AB690AB6B0ABE50ABE50ABE80ABE8"
    \o "0ABED0ABED0FB1E0FB1E0FBB20FBC20FE000FE0F0FE130FE130FE200FE2F0FE520FE520FE550FE550FEFF0FEFF0FF070FF07"
    \o "0FF0E0FF0E0FF1A0FF1A0FF3E0FF3E0FF400FF400FF700FF700FF9E0FF9F0FFE30FFE30FFF90FFFB101FD101FD102E0102E0"
    \o "103761037A107801078510787107B0107B2107BA10A0110A0310A0510A0610A0C10A0F10A3810A3A10A3F10A3F10AE510AE6"
    \o "10D2410D2710EAB10EAC10F4610F5010F8210F8511001110011103811046110701107011073110741107F11081110B3110B6"
    \o "110B9110BA110BD110BD110C2110C2110CD110CD1110011102111271112B1112D1113411173111731118011181111B6111BE"
    \o "111C9111CC111CF111CF1122F11231112341123411236112371123E1123E112DF112DF112E3112EA11300113011133B1133C"
    \o "1134011340113661136C1137011374114381143F114421144411446114461145E1145E114B3114B8114BA114BA114BF114C0"
    \o "114C2114C3115B2115B5115BC115BD115BF115C0115DC115DD116331163A1163D1163D1163F11640116AB116AB116AD116AD"
    \o "116B0116B5116B7116B71171D1171F1172211725117271172B1182F11837118391183A1193B1193C1193E1193E1194311943"
    \o "119D4119D7119DA119DB119E0119E011A0111A0A11A3311A3811A3B11A3E11A4711A4711A5111A5611A5911A5B11A8A11A96"
    \o "11A9811A9911C3011C3611C3811C3D11C3F11C3F11C9211CA711CAA11CB011CB211CB311CB511CB611D3111D3611D3A11D3A"
    \o "11D3C11D3D11D3F11D4511D4711D4711D9011D9111D9511D9511D9711D9711EF311EF4134301343816AF016AF416B3016B36"
    \o "16B4016B4316F4F16F4F16F8F16F9F16FE016FE116FE316FE41AFF01AFF31AFF51AFFB1AFFD1AFFE1BC9D1BC9E1BCA01BCA3"
    \o "1CF001CF2D1CF301CF461D1671D1691D1731D1821D1851D18B1D1AA1D1AD1D2421D2441DA001DA361DA3B1DA6C1DA751DA75"
    \o "1DA841DA841DA9B1DA9F1DAA11DAAF1E0001E0061E0081E0181E01B1E0211E0231E0241E0261E02A1E1301E13D1E2AE1E2AE"
    \o "1E2EC1E2EF1E8D01E8D61E9441E94B1F3FB1F3FFE0001E0001E0020E007FE0100E01EF"

CaseIgnorable == CharsOf(CaseIgnorableRanges)

\* f[c] where f has it, otherwise
Lookup(f, c, otherwise) == IF c \in DOMAIN f THEN f[c] ELSE otherwise

LowerChar(c) == Lookup(LowerOf, c, <<c>>)

\* whether, leaving out the characters in ignorable, a character in cased
\* stands before s[i] and none stands after it
CasedBeforeNotAfter(s, i, ignorable, cased) ==
    LET before == {j \in 1..(i - 1) : s[j] \notin ignorable}
        after == {j \in (i + 1)..Len(s) : s[j] \notin ignorable}
    IN  /\ before # {}
        /\ s[CHOOSE j \in before : \A k \in before : k <= j] \in cased
        /\ \/ after = {}
           \/ s[CHOOSE j \in after : \A k \in after : j <= k] \notin cased

\* the Final_Sigma condition for the capital sigma at s[i]: leaving out the
\* case-ignorable characters, a cased character stands before it and none
\* stands after it
FinalSigma(s, i) == CasedBeforeNotAfter(s, i, CaseIgnorable, Cased)

\* the lower-case form of s[i] within s
LowerAt(s, i) ==
    IF s[i] = "U+03A3"
    THEN (IF FinalSigma(s, i) THEN <<"U+03C2">> ELSE <<"U+03C3">>)
    ELSE LowerChar(s[i])

RECURSIVE LowerFrom(_, _)
LowerFrom(s, i) == IF i > Len(s) THEN <<>> ELSE LowerAt(s, i) \o LowerFrom(s, i + 1)

\* str.lower()
Lower(s) == LowerFrom(s, 1)

RECURSIVE LStrip(_, _)
LStrip(s, cs) ==
    IF s = <<>> THEN <<>>
    ELSE IF Head(s) \in cs THEN LStrip(Tail(s), cs) ELSE s

RECURSIVE RStrip(_, _)
RStrip(s, cs) ==
    IF s = <<>> THEN <<>>
    ELSE IF s[Len(s)] \in cs THEN RStrip(SubSeq(s, 1, Len(s) - 1), cs) ELSE s

\* str.strip(chars)
Strip(s, cs) == RStrip(LStrip(s, cs), cs)

\* re.sub(r"[^a-z0-9]+", "-", value)
RECURSIVE SubNonAlnum(_)
SubNonAlnum(s) ==
    IF s = <<>> THEN <<>>
    ELSE IF Head(s) \in LowerLetters \cup Digits
         THEN <<Head(s)>> \o SubNonAlnum(Tail(s))
         ELSE <<"-">> \o SubNonAlnum(LStrip(Tail(s),
                  {c \in {s[i] : i \in 1..Len(s)} : c \notin LowerLetters \cup Digits}))

FallbackSlug == <<"i","c","o","n","-","p","a","c","k">>

\* variant: the hyphens at the ends are not trimmed
slugify_NoTrim(value) ==
    LET v1 == Lower(Strip(value, Whitespace))
        v2 == SubNonAlnum(v1)
    IN  IF v2 = <<>> THEN FallbackSlug ELSE v2

slugify(value) ==
    LET v1 == Lower(Strip(value, Whitespace))
        v2 == SubNonAlnum(v1)
        v3 == Strip(v2, {"-"})
    IN  IF v3 = <<>> THEN FallbackSlug ELSE v3

icon_filename(value) == slugify(value) \o <<".","p","n","g">>

DigitOf == <<"0","1","2","3","4","5","6","7","8","9">>

\* str(int) as used by the f-strings
RECURSIVE NatToStr(_)
NatToStr(n) ==
    IF n < 10 THEN <<DigitOf[n + 1]>>
    ELSE NatToStr(n \div 10) \o <<DigitOf[(n % 10) + 1]>>

IntToStr(n) == IF n < 0 THEN <<"-">> \o NatToStr(0 - n) ELSE NatToStr(n)

\* the characters int() drops around a number: those of str.isspace()
\* without U+001C..U+001F
IntWhitespace == Whitespace \ {"U+001C", "U+001D", "U+001E", "U+001F"}

\* the code points of the digit zero of every script with decimal digits,
\* five hexadecimal digits each; the digits one to nine follow their zero
DecimalZeros ==
    "0003000660006F0007C000966009E600A6600AE600B6600BE600C6600CE600D6600DE600E5000ED000F200104001090017E0"
    \o "0181001946019D001A8001A9001B5001BB001C4001C500A6200A8D00A9000A9D00A9F00AA500ABF00FF10104A010D3011066"
    \o "110F011136111D0112F011450114D011650116C011730118E01195011C5011D5011DA016A6016AC016B501D7CE1D7D81D7E2"
    \o "1D7EC1D7F61E1401E2F01E9501FBF0"

\* the value of every decimal digit (str.isdecimal())
DecimalValue ==
    AsFunction(UNION {{<<chr(HexValue(z) + d), d>> : d \in 0..9} : z \in Rows(DecimalZeros, 5)})

\* the value of a string of digits
RECURSIVE DigitsValue(_)
DigitsValue(s) ==
    IF s = <<>> THEN 0
    ELSE 10 * DigitsValue(SubSeq(s, 1, Len(s) - 1)) + DecimalValue[s[Len(s)]]

\* int(text) for a str: surrounding whitespace is dropped, then an optional
\* sign and decimal digits of any script, with single underscores allowed
\* between digits; anything else raises ValueError
ParseInt(text) ==
    LET chunk == Strip(text, IntWhitespace)
        signed == chunk # <<>> /\ chunk[1] \in {"-", "+"}
        body == IF signed THEN Tail(chunk) ELSE chunk
        grouped ==
            /\ body # <<>>
            /\ body[1] \in DOMAIN DecimalValue
            /\ body[Len(body)] \in DOMAIN DecimalValue
            /\ \A i \in 1..Len(body) :
                  /\ body[i] \in DOMAIN DecimalValue \cup {"_"}
                  /\ body[i] = "_" => body[i + 1] # "_"
        plain == SelectSeq(body, LAMBDA c : c # "_")
    IN  IF ~grouped
        THEN [ok |-> FALSE, value |-> 0]
        ELSE [ok |-> TRUE,
              value |-> IF signed /\ chunk[1] = "-" THEN 0 - DigitsValue(plain)
                        ELSE DigitsValue(plain)]

\* the integers a YAML document of the model can hold
MaxYamlInt == 128

\* isinstance(value, int) for a YAML scalar that is an int or a str
IsInteger(value) ==
    ToString(value) \in {ToString(n) : n \in (0 - MaxYamlInt)..MaxYamlInt}

\* int(value) of a YAML scalar: an int is itself, a str is parsed
int(value) == IF IsInteger(value) THEN [ok |-> TRUE, value |-> value] ELSE ParseInt(value)

\* str(value) of a YAML scalar: a str is itself, an int is written in decimal
str(value) == IF IsInteger(value) THEN IntToStr(value) ELSE value

\* str.split(sep): the list of pieces between occurrences of the character sep
RECURSIVE Split(_, _)
Split(s, sep) ==
    IF \A i \in 1..Len(s) : s[i] # sep THEN <<s>>
    ELSE LET k == CHOOSE i \in 1..Len(s) :
                      s[i] = sep /\ \A j \in 1..(i - 1) : s[j] # sep
         IN  <<SubSeq(s, 1, k - 1)>> \o Split(SubSeq(s, k + 1, Len(s)), sep)

\* str.split(sep, 1)[0]
SplitFirst(s, sep) == Split(s, sep)[1]

\* sep.join(parts)
RECURSIVE Join(_, _)
Join(parts, sep) ==
    IF parts = <<>> THEN <<>>
    ELSE IF Len(parts) = 1 THEN parts[1]
    ELSE parts[1] \o <<sep>> \o Join(Tail(parts), sep)

Range(s) == {s[i] : i \in 1..Len(s)}

----------------------------------------------------------------------------
(* Paths (pathlib.Path): a sequence of components; an absolute path starts *)
(* with the component "/".                                                 *)

S_apps == <<"a","p","p","s">>
S_scalable == <<"s","c","a","l","a","b","l","e">>
S_scalable_apps == S_scalable \o <<"/">> \o S_apps
S_gnome == <<"g","n","o","m","e">>
S_kde == <<"k","d","e">>
S_xfce == <<"x","f","c","e">>
S_index_theme == <<"i","n","d","e","x",".","t","h","e","m","e">>
S_descriptor == <<"s","t","r","o","m","s","c","h","l","a","g",".","y","a","m","l">>
S_breeze == <<"b","r","e","e","z","e">>
S_build == <<"b","u","i","l","d">>
S_Fixed == <<"F","i","x","e","d">>
S_Scalable == <<"S","c","a","l","a","b","l","e">>
S_128 == <<"1","2","8">>
S_svg == <<".","s","v","g">>
S_svgz == <<".","s","v","g","z">>

\* Python's None where a Path is expected, and where a str is expected
None == <<(<<"None">>)>>

NoneStr == <<"None">>

\* the components of a path string: the string is split at "/", empty
\* pieces and "." are dropped
PathPieces(s) == SelectSeq(Split(s, "/"), LAMBDA c : c # <<>> /\ c # <<".">>)

\* the root of a path string: "/" for a leading slash, "//" for exactly two,
\* "" for a relative string
PathRoot(s) ==
    IF Len(s) >= 2 /\ s[1] = "/" /\ s[2] = "/" /\ (Len(s) = 2 \/ s[3] # "/")
    THEN <<"/", "/">>
    ELSE IF s # <<>> /\ s[1] = "/" THEN <<"/">> ELSE <<>>

\* Path(str)
PathOf(s) == (IF PathRoot(s) = <<>> THEN <<>> ELSE <<PathRoot(s)>>) \o PathPieces(s)

\* Path.__truediv__ with a string operand: an absolute operand replaces the
\* path, a relative one is appended
PathJoin(p, s) == IF PathRoot(s) # <<>> THEN PathOf(s) ELSE p \o PathPieces(s)

\* str(Path)
PathStr(p) ==
    IF p = <<>> THEN <<".">>
    ELSE IF p[1] \in {<<"/">>, <<"/", "/">>} THEN p[1] \o Join(Tail(p), "/")
    ELSE Join(p, "/")

HomeDir == <<(<<"/">>), <<"h","o","m","e">>, <<"u">>>>

\* the home directories of the users of the machine, by user name
UserHomes ==
    (<<"u">> :> HomeDir) @@ (<<"r","o","o","t">> :> <<(<<"/">>), <<"r","o","o","t">>>>)

\* what stands for the RuntimeError of expanduser where a Path is expected
NoHome == <<(<<"RuntimeError">>)>>

\* Path.expanduser() with HOME set: a relative path whose first component
\* starts with "~" gets the home directory of the user named after the "~"
\* (the current user for "~" alone); RuntimeError for a user that does not
\* exist
expanduser(p) ==
    IF p = <<>> \/ p[1][1] # "~" THEN p
    ELSE LET user == Tail(p[1])
         IN  IF user = <<>> THEN HomeDir \o Tail(p)
             ELSE IF user \in DOMAIN UserHomes THEN UserHomes[user] \o Tail(p)
             ELSE NoHome

\* the path is "/" or "//"
IsRoot(p) == Len(p) = 1 /\ p[1] \in {<<"/">>, <<"/", "/">>}

\* Path.parent: "." and the roots are their own parents
Parent(p) == IF p = <<>> \/ IsRoot(p) THEN p ELSE SubSeq(p, 1, Len(p) - 1)

\* Path.name
Name(p) == IF p = <<>> \/ IsRoot(p) THEN <<>> ELSE p[Len(p)]

\* Path.suffix: the last component from its last dot on, "" when the dot is
\* the first or the last character or there is none
Suffix(p) ==
    IF p = <<>> THEN <<>>
    ELSE LET nm == p[Len(p)]
             dots == {i \in 1..Len(nm) : nm[i] = "."}
         IN  IF dots = {} THEN <<>>
             ELSE LET k == CHOOSE i \in dots : \A j \in dots : j <= i
                  IN  IF k = 1 \/ k = Len(nm) THEN <<>> ELSE SubSeq(nm, k, Len(nm))

Prefixes(p) == {SubSeq(p, 1, k) : k \in 1..Len(p)}

\* Path.is_dir(): the working directory "." and the roots are always there
IsDirectory(ds, p) == p = <<>> \/ IsRoot(p) \/ p \in ds

\* Path.exists()
Exists(ds, fl, p) == IsDirectory(ds, p) \/ p \in DOMAIN fl

\* variant: an existing directory is replaced by an empty one
ensure_directory_Fresh(ds, fl, path) ==
    IF \E a \in Prefixes(path) \ {path} : a \in DOMAIN fl
    THEN [err |-> "NotADirectoryError", dirs |-> ds]
    ELSE IF path \in DOMAIN fl THEN [err |-> "FileExistsError", dirs |-> ds]
    ELSE [err |-> "",
          dirs |-> {d \in ds : ~(Len(d) > Len(path) /\ SubSeq(d, 1, Len(path)) = path)}
                       \cup Prefixes(path)]

\* utils.ensure_directory: mkdir(parents=True, exist_ok=True); a regular file
\* above the path gives NotADirectoryError, one at the path FileExistsError.
\* The paths of the model hold no ".." component.
ensure_directory(ds, fl, path) ==
    IF \E a \in Prefixes(path) \ {path} : a \in DOMAIN fl
    THEN [err |-> "NotADirectoryError", dirs |-> ds]
    ELSE IF path \in DOMAIN fl THEN [err |-> "FileExistsError", dirs |-> ds]
    ELSE [err |-> "", dirs |-> ds \cup Prefixes(path)]

\* ensure_directory on each path of a list, up to the first that raises
RECURSIVE EnsureAll(_, _, _)
EnsureAll(ds, fl, paths) ==
    IF paths = <<>> THEN [err |-> "", dirs |-> ds]
    ELSE LET r == ensure_directory(ds, fl, Head(paths))
         IN  IF r.err # "" THEN r ELSE EnsureAll(r.dirs, fl, Tail(paths))

\* shutil.copy2(source, dest) for a source that exists: a destination that
\* is a directory stands for the file of the source's name in it; the
\* source being the destination, the source being a directory, or the
\* destination not being writable as a file raises; otherwise the
\* destination gets the bytes of the source
copy2(ds, fl, source, dest) ==
    LET dst == IF ~IsDirectory(ds, dest) \/ Name(source) = <<>> THEN dest
               ELSE Append(dest, Name(source))
    IN  IF source = dst THEN [err |-> "SameFileError", files |-> fl]
        ELSE IF IsDirectory(ds, source) \/ IsDirectory(ds, dst)
        THEN [err |-> "IsADirectoryError", files |-> fl]
        ELSE IF \E a \in Prefixes(dst) \ {dst} : a \in DOMAIN fl
        THEN [err |-> "NotADirectoryError", files |-> fl]
        ELSE IF ~IsDirectory(ds, Parent(dst))
        THEN [err |-> "FileNotFoundError", files |-> fl]
        ELSE [err |-> "", files |-> (dst :> fl[source]) @@ fl]

\* open(path, mode) fails: a regular file stands above the path, the
\* directory of the path is missing, or the path is a directory
OpenError(ds, fl, path) ==
    IF \E a \in Prefixes(path) \ {path} : a \in DOMAIN fl THEN "NotADirectoryError"
    ELSE IF ~IsDirectory(ds, Parent(path)) THEN "FileNotFoundError"
    ELSE IF IsDirectory(ds, path) THEN "IsADirectoryError"
    ELSE ""

\* Path.write_text(content): the outcome and the files after it; nothing is
\* written when the file cannot be opened
write_text(ds, fl, path, content) ==
    IF OpenError(ds, fl, path) # ""
    THEN [err |-> OpenError(ds, fl, path), files |-> fl]
    ELSE [err |-> "", files |-> (path :> content) @@ fl]

----------------------------------------------------------------------------
(* Data model (core/models.py) *)

\* the slots of the IconDefinition dataclass
IconDefinitionFields == {"name", "source_path", "category"}

IconDefinition(name, source_path, category) ==
    [name |-> name, source_path |-> source_path, category |-> category]

has_source_asset(ds, fl, icon) ==
    icon.source_path # None /\ Exists(ds, fl, icon.source_path)

DefaultVersion == <<"0",".","1">>

DefaultBaseSizes == <<16, 24, 32, 48, 64, 128>>

DefaultTargets == <<S_gnome, S_kde>>

PackSettings(name, author, version, description, inherits, base_sizes, output_dir, tgts) ==
    [name |-> name, author |-> author, version |-> version,
     description |-> description, inherits |-> inherits,
     base_sizes |-> base_sizes, output_dir |-> output_dir, targets |-> tgts]

theme_slug(st) == slugify(st.name)

S_crafted ==
    <<"I","c","o","n"," ","t","h","e","m","e"," ","c","r","a","f","t","e","d"," ","b","y"," ">>

theme_comment(st) ==
    IF st.description # <<>> THEN st.description ELSE S_crafted \o st.author

----------------------------------------------------------------------------
(* core/exporters.py *)

KnownTargets == {S_gnome, S_kde}

\* variant: the configured list is used as it is, unknown names included
DesiredTargets_Unfiltered(st) ==
    IF st.targets = <<>> THEN <<S_gnome, S_kde>> ELSE st.targets

\* variant: the fallback is taken for an empty settings.targets only
DesiredTargets_FallbackWhenEmpty(st) ==
    IF st.targets = <<>> THEN <<S_gnome, S_kde>>
    ELSE SelectSeq(st.targets, LAMBDA t : t \in KnownTargets)

\* desired = [t for t in settings.targets if t in {"gnome", "kde"}], with
\* the fallback to both
DesiredTargets(st) ==
    LET desired == SelectSeq(st.targets, LAMBDA t : t \in KnownTargets)
    IN  IF desired = <<>> THEN <<S_gnome, S_kde>> ELSE desired

\* f"{size}x{size}"
SizeDirName(size) == IntToStr(size) \o <<"x">> \o IntToStr(size)

\* the list `directories` built for one target
ThemeDirectories(st) ==
    [i \in 1..Len(st.base_sizes) |-> SizeDirName(st.base_sizes[i]) \o <<"/">> \o S_apps]
        \o <<S_scalable_apps>>

\* variant: Size takes the whole "<s>x<s>" instead of the part before "x"
IndexSection_WholeSizePart(directory) ==
    LET size_part == SplitFirst(directory, "/")
    IN  IF "x" \in Range(size_part)
        THEN [header |-> directory, Size |-> size_part, Type |-> S_Fixed]
        ELSE [header |-> directory, Size |-> S_128, Type |-> S_Scalable]

\* one section of index.theme
IndexSection(directory) ==
    LET size_part == SplitFirst(directory, "/")
    IN  IF "x" \in Range(size_part)
        THEN [header |-> directory, Size |-> Split(size_part, "x")[1], Type |-> S_Fixed]
        ELSE [header |-> directory, Size |-> S_128, Type |-> S_Scalable]

\* _write_index_theme: the outcome of theme_file.write_text(content) and the
\* files after it
_write_index_theme(ds, fl, theme_root, st, directories, comment) ==
    write_text(ds, fl, PathJoin(theme_root, S_index_theme),
        [theme |-> [Name |-> st.name,
                    Comment |-> comment,
                    Inherits |-> st.inherits,
                    Directories |-> Join(directories, ","),
                    sections |-> [i \in 1..Len(directories) |-> IndexSection(directories[i])]]])

\* root / desktop / settings.name
ThemeRoot(root, desktop, st) == PathJoin(PathJoin(root, desktop), st.name)

SizeDirPath(theme_root, size) == PathJoin(PathJoin(theme_root, SizeDirName(size)), S_apps)

ScalableDirPath(theme_root) == PathJoin(PathJoin(theme_root, S_scalable), S_apps)

_ThemeTarget(theme_root, size_dirs, scalable_dir) ==
    [theme_root |-> theme_root, size_dirs |-> size_dirs, scalable_dir |-> scalable_dir]

\* the keys of a dict filled by `d[k] = ...` for each k of a list, in the
\* order the dict keeps them: by first assignment
RECURSIVE DictKeys(_)
DictKeys(ks) ==
    IF ks = <<>> THEN <<>>
    ELSE LET before == DictKeys(SubSeq(ks, 1, Len(ks) - 1))
         IN  IF ks[Len(ks)] \in Range(before) THEN before
             ELSE Append(before, ks[Len(ks)])

\* the body of the loop `for desktop in desired`: the directories are made
\* in the order of the code, then index.theme is written; the first
\* ensure_directory or write_text that raises ends the call with what was
\* made before it
PrepareOne(acc, root, st, desktop) ==
    LET theme_root == ThemeRoot(root, desktop, st)
        keys == DictKeys(st.base_sizes)
        size_dirs == [i \in 1..Len(keys) |->
                         [key |-> keys[i], value |-> SizeDirPath(theme_root, keys[i])]]
        scalable == ScalableDirPath(theme_root)
        made == EnsureAll(acc.dirs, acc.files,
                    <<theme_root>>
                        \o [i \in 1..Len(st.base_sizes) |->
                               SizeDirPath(theme_root, st.base_sizes[i])]
                        \o <<scalable>>)
        written == _write_index_theme(made.dirs, acc.files, theme_root, st,
                                      ThemeDirectories(st), theme_comment(st))
    IN  IF made.err # ""
        THEN [err |-> made.err, dirs |-> made.dirs, files |-> acc.files,
              themes |-> acc.themes]
        ELSE IF written.err # ""
        THEN [err |-> written.err, dirs |-> made.dirs, files |-> acc.files,
              themes |-> acc.themes]
        ELSE [err |-> "", dirs |-> made.dirs, files |-> written.files,
              themes |-> Append(acc.themes, _ThemeTarget(theme_root, size_dirs, scalable))]

RECURSIVE PrepareLoop(_, _, _, _)
PrepareLoop(acc, root, st, desired) ==
    IF desired = <<>> \/ acc.err # "" THEN acc
    ELSE PrepareLoop(PrepareOne(acc, root, st, Head(desired)), root, st, Tail(desired))

_prepare_theme_targets(ds, fl, root, st) ==
    PrepareLoop([err |-> "", dirs |-> ds, files |-> fl, themes |-> <<>>], root, st,
                DesiredTargets(st))

VectorSuffixes == {S_svg, S_svgz}

\* variant: the suffix is compared without lower()
IsVector_CaseSensitive(source) == Suffix(source) \in VectorSuffixes

IsVector(source) == Lower(Suffix(source)) \in VectorSuffixes

\* variant: a raster source is not copied into scalable/apps
CopyDestinations_NoScalable(source, filename, target) ==
    IF IsVector(source)
    THEN <<PathJoin(target.scalable_dir, filename)>>
    ELSE [i \in 1..Len(target.size_dirs) |-> PathJoin(target.size_dirs[i].value, filename)]

\* the destinations one target receives for one source, in the order of the
\* copies: target.size_dirs.values(), then the scalable directory
CopyDestinations(source, filename, target) ==
    IF IsVector(source)
    THEN <<PathJoin(target.scalable_dir, filename)>>
    ELSE [i \in 1..Len(target.size_dirs) |-> PathJoin(target.size_dirs[i].value, filename)]
             \o <<PathJoin(target.scalable_dir, filename)>>

\* copy2 to each destination of a list, up to the first that raises
RECURSIVE CopyAll(_, _, _, _)
CopyAll(ds, fl, source, dests) ==
    IF dests = <<>> THEN [err |-> "", files |-> fl]
    ELSE LET r == copy2(ds, fl, source, Head(dests))
         IN  IF r.err # "" THEN r ELSE CopyAll(ds, r.files, source, Tail(dests))

\* the destinations of all targets, in the order of `for target in targets`
RECURSIVE AllDestinations(_, _, _)
AllDestinations(source, filename, tgts) ==
    IF tgts = <<>> THEN <<>>
    ELSE CopyDestinations(source, filename, Head(tgts))
             \o AllDestinations(source, filename, Tail(tgts))

\* _copy_source_asset(source, filename, targets): the outcome and the files
\* after it; the copies made before one that raises stay
_copy_source_asset(ds, fl, source, filename, tgts) ==
    IF source = None THEN [err |-> "", files |-> fl]
    ELSE CopyAll(ds, fl, source, AllDestinations(source, filename, tgts))

----------------------------------------------------------------------------
(* core/project_io.py *)

\* the parameters in the signature of save_project
save_project_params == {"path", "settings", "icons"}

\* the attributes save_project reads from every icon
SaveIconAttributes ==
    {"name", "glyph", "background", "foreground", "category", "source_path"}

\* the keyword arguments load_project passes to IconDefinition(...)
LoadIconKwargs ==
    {"name", "glyph", "background", "foreground", "source_path", "category"}

Truthy(s) == s # <<>> /\ s # NoneStr

\* the dict save_project builds for one icon
IconPayload(icon) ==
    [name |-> icon.name, glyph |-> icon.glyph,
     background |-> icon.background, foreground |-> icon.foreground]
    @@ (IF Truthy(icon.category) THEN [category |-> icon.category] ELSE <<>>)
    @@ (IF icon.source_path # None
        THEN [source_path |-> PathStr(icon.source_path)] ELSE <<>>)

\* save_project(path, settings, icons): the outcome and the filesystem after it.
\* The payload is built before anything is written, and building it reads
\* SaveIconAttributes from every icon.
save_project(ds, fl, path, st, icons) ==
    IF icons # <<>> /\ ~(SaveIconAttributes \subseteq IconDefinitionFields)
    THEN [err |-> "AttributeError", dirs |-> ds, files |-> fl]
    ELSE LET payload ==
                 [name |-> st.name,
                  author |-> st.author,
                  description |-> st.description,
                  inherits |-> st.inherits,
                  base_sizes |-> st.base_sizes,
                  output_dir |-> PathStr(st.output_dir),
                  targets |-> st.targets,
                  icons |-> [i \in 1..Len(icons) |-> IconPayload(icons[i])]]
             made == ensure_directory(ds, fl, Parent(path))
             written == write_text(made.dirs, fl, path, [yaml |-> payload])
         IN  IF made.err # ""
             THEN [err |-> made.err, dirs |-> made.dirs, files |-> fl]
             ELSE [err |-> written.err, dirs |-> made.dirs, files |-> written.files]

\* a call save_project(path, settings, icons, **kwargs)
CallSaveProject(ds, fl, path, st, icons, kwargs) ==
    IF kwargs \subseteq save_project_params
    THEN save_project(ds, fl, path, st, icons)
    ELSE [err |-> "TypeError", dirs |-> ds, files |-> fl]

DictGet(d, k, default) == IF k \in DOMAIN d THEN d[k] ELSE default

S_Untitled ==
    <<"U","n","t","i","t","l","e","d"," ","I","c","o","n"," ","P","a","c","k">>
S_Unknown == <<"U","n","k","n","o","w","n">>

\* the icon load_project builds from the index-th entry of the "icons" list
LoadedIcon(payload, index) ==
    LET source_path_str == DictGet(payload, "source_path", NoneStr)
    IN  IconDefinition(DictGet(payload, "name", <<"I","c","o","n"," ">> \o IntToStr(index)),
                       IF Truthy(source_path_str)
                       THEN expanduser(PathOf(source_path_str)) ELSE None,
                       DictGet(payload, "category", NoneStr))

\* Path(source_path_str).expanduser() raises for this entry of "icons"
NoHomeFor(payload) ==
    /\ Truthy(DictGet(payload, "source_path", NoneStr))
    /\ expanduser(PathOf(payload.source_path)) = NoHome

\* `not value` for a YAML document that is a scalar or a list
Falsy(value) == ToString(value) \in {ToString(<<>>), ToString(0), ToString(None)}

\* load_project(path): the outcome, the settings and the icons.  A file holds
\* the bytes of an image, a YAML document that is a mapping (yaml), or one
\* that is a scalar or a list (scalar), or an index.theme (theme), whose text
\* after the first section header is no YAML; `safe_load(...) or {}` turns a falsy
\* document into {} and data.get raises for any other that is no mapping.
\* read_text
\* raises for a path that cannot be opened and for a file that holds the
\* bytes of an image instead of text.  The YAML codec returns the document
\* that was dumped; version is not read, so the
\* settings get the default.  base_sizes go through int() and targets
\* through str().  Every entry of "icons" is turned into
\* IconDefinition(**LoadIconKwargs), its arguments evaluated first.
load_project(ds, fl, path) ==
    IF path \notin DOMAIN fl
    THEN [err |-> IF OpenError(ds, fl, path) # "" THEN OpenError(ds, fl, path)
                  ELSE "FileNotFoundError"]
    ELSE IF "bytes" \in DOMAIN fl[path]
    THEN [err |-> "UnicodeDecodeError"]
    ELSE IF "theme" \in DOMAIN fl[path]
    THEN [err |-> "ParserError"]
    ELSE IF "scalar" \in DOMAIN fl[path] /\ ~Falsy(fl[path].scalar)
    THEN [err |-> "AttributeError"]
    ELSE LET data == IF "scalar" \in DOMAIN fl[path] THEN <<>> ELSE fl[path].yaml
             sizes == DictGet(data, "base_sizes", DefaultBaseSizes)
             names == DictGet(data, "targets", DefaultTargets)
             st == PackSettings(
                       DictGet(data, "name", S_Untitled),
                       DictGet(data, "author", S_Unknown),
                       DefaultVersion,
                       DictGet(data, "description", <<>>),
                       DictGet(data, "inherits", S_breeze),
                       [i \in 1..Len(sizes) |-> int(sizes[i]).value],
                       PathOf(DictGet(data, "output_dir", S_build)),
                       [i \in 1..Len(names) |-> str(names[i])])
             payloads == DictGet(data, "icons", <<>>)
         IN  IF \E i \in 1..Len(sizes) : ~int(sizes[i]).ok
             THEN [err |-> "ValueError"]
             ELSE IF payloads # <<>> /\ NoHomeFor(payloads[1])
             THEN [err |-> "RuntimeError"]
             ELSE IF payloads # <<>> /\ ~(LoadIconKwargs \subseteq IconDefinitionFields)
             THEN [err |-> "TypeError"]
             ELSE IF \E i \in 1..Len(payloads) : NoHomeFor(payloads[i])
             THEN [err |-> "RuntimeError"]
             ELSE [err |-> "", settings |-> st,
                   icons |-> [i \in 1..Len(payloads) |-> LoadedIcon(payloads[i], i)]]

----------------------------------------------------------------------------
(* core/exporters.py: the project descriptors *)

RECURSIVE TargetDescriptors(_, _, _, _)
TargetDescriptors(acc, tgts, st, icons) ==
    IF tgts = <<>> \/ acc.err # "" THEN acc
    ELSE LET target == Head(tgts)
             themed_icons ==
                 [i \in 1..Len(icons) |->
                     IconDefinition(
                         icons[i].name,
                         IF has_source_asset(acc.dirs, acc.files, icons[i])
                         THEN PathJoin(target.scalable_dir, icon_filename(icons[i].name))
                         ELSE None,
                         icons[i].category)]
         IN  TargetDescriptors(
                 CallSaveProject(acc.dirs, acc.files,
                                 PathJoin(target.theme_root, S_descriptor),
                                 st, themed_icons, {"include_categories"}),
                 Tail(tgts), st, icons)

\* variant: the snapshot is made by rewriting the caller's objects
IconSnapshot_InPlace(icons) ==
    [fresh |-> [i \in 1..Len(icons) |->
                   IconDefinition(icons[i].name, icons[i].source_path, icons[i].category)],
     caller |-> [i \in 1..Len(icons) |->
                    IconDefinition(icons[i].name, None, icons[i].category)]]

\* icon_snapshot: freshly built IconDefinition objects; the caller's list and
\* its objects are only read
IconSnapshot(icons) ==
    [fresh |-> [i \in 1..Len(icons) |->
                   IconDefinition(icons[i].name, icons[i].source_path, icons[i].category)],
     caller |-> icons]

\* the outcome, the disk, and the caller's icon list after the call
_write_project_descriptors(ds, fl, pack_root, tgts, st, icons) ==
    LET snapshot == IconSnapshot(icons)
        first == CallSaveProject(ds, fl, PathJoin(pack_root, S_descriptor),
                                 st, snapshot.fresh, {"include_categories"})
        r == TargetDescriptors(first, tgts, st, snapshot.caller)
    IN  [err |-> r.err, dirs |-> r.dirs, files |-> r.files, icons |-> snapshot.caller]

----------------------------------------------------------------------------
(* Inputs *)

S_in == <<"i","n">>
S_out == <<"o","u","t">>
S_author == <<"m","e">>

\* artwork on disk before the export: two rasters with different bytes and
\* two vector files, one with an upper-case suffix
RasterA == <<S_in, <<"r","1",".","p","n","g">>>>
RasterB == <<S_in, <<"r","2",".","P","N","G">>>>
VectorA == <<S_in, <<"v",".","s","v","g">>>>
VectorB == <<S_in, <<"w",".","S","V","G","Z">>>>
MissingSource == <<S_in, <<"m",".","p","n","g">>>>

InitDirs == {<<S_in>>}

InitFiles ==
    (RasterA :> [bytes |-> 1]) @@ (RasterB :> [bytes |-> 2])
        @@ (VectorA :> [bytes |-> 3]) @@ (VectorB :> [bytes |-> 4])

\* "f" and "F " have the same slug; "!" has the fallback slug
CollidingNames == {<<"f">>, <<"F"," ">>}

IconPool ==
    {IconDefinition(n, sp, NoneStr) :
        n \in CollidingNames, sp \in {RasterA, RasterB, VectorB}}
    \cup {IconDefinition(<<"!">>, sp, NoneStr) : sp \in {None, MissingSource, VectorA}}

IconLists == UNION {[1..n -> IconPool] : n \in 0..MaxIcons}

PackNames == {<<"m","y"," ","P">>}

SizeLists == {<<32>>, <<32, 16>>}

\* settings.targets: empty, known names only, an unknown name with a known
\* one, and an unknown name alone
TargetLists == {<<>>, <<S_kde>>, <<S_kde, S_gnome>>, <<S_xfce, S_gnome>>, <<S_xfce>>}

ExportSettings ==
    {PackSettings(n, S_author, DefaultVersion, <<>>, S_breeze, sz, <<S_out>>, tg) :
        n \in PackNames, sz \in SizeLists, tg \in TargetLists}

NoSettings == [name |-> <<>>]

RtOff == [phase |-> "off"]

\* a function that has not been called
Off == [phase |-> "off"]

NoPrev == [settings |-> NoSettings, icon_list |-> <<>>, dirs |-> {}, files |-> <<>>]

\* no export_icon_pack call has been made
ExportIdle ==
    /\ pc = "idle"
    /\ settings = NoSettings
    /\ icon_list = <<>>
    /\ targets = <<>>
    /\ idx = 0
    /\ result = "none"
    /\ calls = 0
    /\ prev = NoPrev

----------------------------------------------------------------------------
(* export_icon_pack, one action per stage *)

PackRoot(st) == PathJoin(st.output_dir, theme_slug(st))

\* variant: the guard on the icon collection is missing
EmptyIconSet_Missing(icons) == FALSE

\* `if not icon_list: raise ValueError(...)`
EmptyIconSet(icons) == icons = <<>>

\* the call and the check at its head
ExportBegin(st, icons) ==
    /\ pc \in {"idle", "raised", "returned"}
    /\ calls' = calls + 1
    /\ prev' = [settings |-> settings, icon_list |-> icon_list,
                dirs |-> dirs, files |-> files]
    /\ settings' = st
    /\ icon_list' = icons
    /\ targets' = <<>>
    /\ idx' = 0
    /\ IF EmptyIconSet(icons)
       THEN /\ result' = "ValueError"
            /\ pc' = "raised"
       ELSE /\ result' = "running"
            /\ pc' = "prepare"
    /\ UNCHANGED <<dirs, files, auxVars>>

\* targets = _prepare_theme_targets(pack_root, settings)
ExportPrepare ==
    /\ pc = "prepare"
    /\ LET r == _prepare_theme_targets(dirs, files, PackRoot(settings), settings)
       IN  /\ dirs' = r.dirs
           /\ files' = r.files
           /\ targets' = r.themes
           /\ result' = IF r.err = "" THEN result ELSE r.err
           /\ pc' = IF r.err = "" THEN "copy" ELSE "raised"
    /\ idx' = 1
    /\ UNCHANGED <<settings, icon_list, calls, prev, auxVars>>

\* variant: a failed copy removes every file below the pack root
CopyStep_Rollback(ds, fl, root, icon, tgts) ==
    IF ~has_source_asset(ds, fl, icon) THEN [err |-> "", files |-> fl]
    ELSE LET r == _copy_source_asset(ds, fl, icon.source_path,
                                     icon_filename(icon.name), tgts)
         IN  IF r.err = "" THEN r
             ELSE [err |-> r.err,
                   files |-> [p \in {q \in DOMAIN fl :
                                         ~(Len(q) > Len(root)
                                           /\ SubSeq(q, 1, Len(root)) = root)}
                                 |-> fl[p]]]

\* the body of `for icon in icon_list` for one icon: an icon without an
\* existing source is skipped; a copy that raises ends the export with the
\* copies made before it in place
CopyStep(ds, fl, root, icon, tgts) ==
    IF ~has_source_asset(ds, fl, icon) THEN [err |-> "", files |-> fl]
    ELSE _copy_source_asset(ds, fl, icon.source_path, icon_filename(icon.name), tgts)

\* one iteration of `for icon in icon_list`
ExportCopy ==
    /\ pc = "copy"
    /\ idx <= Len(icon_list)
    /\ LET r == CopyStep(dirs, files, PackRoot(settings), icon_list[idx], targets)
       IN  /\ files' = r.files
           /\ result' = IF r.err = "" THEN result ELSE r.err
           /\ pc' = IF r.err # "" THEN "raised"
                    ELSE IF idx = Len(icon_list) THEN "descriptors" ELSE "copy"
    /\ idx' = idx + 1
    /\ UNCHANGED <<dirs, settings, icon_list, targets, calls, prev, auxVars>>

\* _write_project_descriptors(...) and the return
ExportDescriptors ==
    /\ pc = "descriptors"
    /\ LET r == _write_project_descriptors(dirs, files, PackRoot(settings),
                                           targets, settings, icon_list)
       IN  /\ dirs' = r.dirs
           /\ files' = r.files
           /\ result' = IF r.err = "" THEN "returned" ELSE r.err
           /\ pc' = IF r.err = "" THEN "returned" ELSE "raised"
           /\ icon_list' = r.icons
    /\ UNCHANGED <<settings, targets, idx, calls, prev, auxVars>>

Init ==
    /\ dirs = InitDirs
    /\ files = InitFiles
    /\ ExportIdle
    /\ rt = RtOff
    /\ sl = Off
    /\ tl = Off
    /\ inst = Off
    /\ ed = Off

Next ==
    \/ \E st \in ExportSettings, icons \in IconLists :
          calls = 0 /\ ExportBegin(st, icons)
    \/ ExportPrepare
    \/ ExportCopy
    \/ ExportDescriptors

Spec == Init /\ [][Next]_vars

----------------------------------------------------------------------------
(* Vocabulary of the properties, written from the layout on disk *)

\* the call has ended, by a return or by an exception raised after the check
\* of the icon collection
AfterExport == pc \in {"returned", "raised"} /\ icon_list # <<>>

\* _prepare_theme_targets has run
AfterPrepare == pc \in {"copy", "descriptors"} \/ AfterExport

\* <output_dir>/<slug(pack name)>
LayoutPackRoot == settings.output_dir \o <<slugify(settings.name)>>

\* <pack root>/<T>/<pack name>
LayoutTargetRoot(T) == LayoutPackRoot \o <<T, settings.name>>

\* <target root>/<s>x<s>/apps/<slug(icon name)>.png
LayoutSizeFile(T, s, icon) ==
    LayoutTargetRoot(T)
        \o <<IntToStr(s) \o <<"x">> \o IntToStr(s), S_apps,
             slugify(icon.name) \o <<".","p","n","g">>>>

\* <target root>/scalable/apps/<slug(icon name)>.png
LayoutScalableFile(T, icon) ==
    LayoutTargetRoot(T)
        \o <<S_scalable, S_apps, slugify(icon.name) \o <<".","p","n","g">>>>

ConfiguredKnown == Range(settings.targets) \cap {S_gnome, S_kde}

\* the targets the export is to produce
ResolvedTargets == IF ConfiguredKnown = {} THEN {S_gnome, S_kde} ELSE ConfiguredKnown

Sizes == Range(settings.base_sizes)

\* source_path is set and names something on disk
Resolvable(icon) ==
    icon.source_path # None /\ (icon.source_path \in DOMAIN files \/ icon.source_path \in dirs)

VectorSource(icon) ==
    Resolvable(icon) /\ Lower(Suffix(icon.source_path)) \in {S_svg, S_svgz}

RasterSource(icon) ==
    Resolvable(icon) /\ Lower(Suffix(icon.source_path)) \notin {S_svg, S_svgz}

SameFilename(a, b) == slugify(a.name) = slugify(b.name)

\* a later icon of the list with a resolvable source has the same output filename
OverwrittenLater(i) ==
    \E j \in (i + 1)..Len(icon_list) :
        Resolvable(icon_list[j]) /\ SameFilename(icon_list[i], icon_list[j])

\* every bucket file of the icon holds the bytes of its source
RasterCopiedEverywhere(icon) ==
    \A T \in ResolvedTargets :
        /\ \A s \in Sizes :
               /\ LayoutSizeFile(T, s, icon) \in DOMAIN files
               /\ files[LayoutSizeFile(T, s, icon)] = files[icon.source_path]
        /\ LayoutScalableFile(T, icon) \in DOMAIN files
        /\ files[LayoutScalableFile(T, icon)] = files[icon.source_path]

----------------------------------------------------------------------------
(* C1 *)

\* C1: export_icon_pack called with an empty icon collection raises the
\* empty-icon-set ValueError, and neither that step nor anything after it in
\* the call changes the directories or files on disk.
C1_EmptyExportLeavesDiskUnchanged ==
    [][ /\ (calls' # calls /\ icon_list' = <<>>)
            => (result' = "ValueError" /\ pc' = "raised"
                /\ dirs' = dirs /\ files' = files)
        /\ (result = "ValueError") => (dirs' = dirs /\ files' = files) ]_vars

C1_Witness == result = "ValueError" /\ pc = "raised" /\ icon_list = <<>>

----------------------------------------------------------------------------
(* C2 *)

\* the call has ended and its copy loop went through the whole list without
\* a copy that raised
CopiesDone ==
    AfterExport /\ idx > Len(icon_list) /\ result \notin {"IsADirectoryError", "SameFileError"}

\* C2 as stated, for the exports whose copy loop went through the whole list:
\* after the export every icon whose source is a file on disk and not a vector
\* file has its source's bytes in every size bucket and in scalable/apps of
\* every resolved target.
C2_EveryRasterIconKeepsItsBytes ==
    CopiesDone =>
        \A i \in 1..Len(icon_list) :
            (RasterSource(icon_list[i]) /\ icon_list[i].source_path \in DOMAIN files)
                => RasterCopiedEverywhere(icon_list[i])

\* the source of the icon at idx is one of the files the export writes for it
SourceIsDestination ==
    \E T \in ResolvedTargets :
        \/ icon_list[idx].source_path = LayoutScalableFile(T, icon_list[idx])
        \/ \E s \in Sizes : icon_list[idx].source_path = LayoutSizeFile(T, s, icon_list[idx])

\* the files the export writes for an icon with a raster source
BucketFiles(icon) ==
    {LayoutSizeFile(T, s, icon) : T \in ResolvedTargets, s \in Sizes}
        \cup {LayoutScalableFile(T, icon) : T \in ResolvedTargets}

\* after the step every bucket file of the icon holds the bytes its source
\* held before the step
RasterCopiedByStep(icon) ==
    \A p \in BucketFiles(icon) :
        p \in DOMAIN files' /\ files'[p] = files[icon.source_path]

\* C2 amended: the icons are copied in list order. The copy of an icon whose
\* source is set, exists and is not a vector file raises when the source is a
\* directory or is one of the files the copy writes; when it does not raise,
\* every size bucket and scalable/apps of every resolved target holds, right
\* after it, the bytes the source held when it was copied. For the rest of the
\* export the bucket files of an icon that was copied change only by the copy
\* of a later icon that has an existing source and the same slug.
C2_RasterCopyKeepsItsBytes ==
    /\ [][ (pc = "copy" /\ RasterSource(icon_list[idx]))
             => /\ (IsDirectory(dirs, icon_list[idx].source_path) \/ SourceIsDestination)
                       => pc' = "raised"
                /\ pc' # "raised" => RasterCopiedByStep(icon_list[idx]) ]_vars
    /\ [][ (pc \in {"copy", "descriptors"})
             => \A i \in 1..(idx - 1) : \A p \in BucketFiles(icon_list[i]) :
                    (p \in DOMAIN files /\ (p \notin DOMAIN files' \/ files'[p] # files[p]))
                        => /\ pc = "copy"
                           /\ Resolvable(icon_list[idx])
                           /\ SameFilename(icon_list[i], icon_list[idx]) ]_vars

\* the first icon, a raster, was copied into two size buckets and
\* scalable/apps; the copy of the second, whose source is a directory, has
\* ended the export
C2_Witness ==
    /\ AfterExport
    /\ Len(icon_list) = 2
    /\ RasterSource(icon_list[1])
    /\ icon_list[2].source_path \in dirs
    /\ result = "IsADirectoryError"
    /\ Len(settings.base_sizes) = 2
    /\ RasterCopiedEverywhere(icon_list[1])

----------------------------------------------------------------------------
(* C3 *)

\* the paths whose content differs between the two states of a step
ChangedFiles ==
    {p \in DOMAIN files' : p \notin DOMAIN files \/ files'[p] # files[p]}

\* C3: in a single export into a fresh output directory, the copy of an icon
\* whose existing source has suffix .svg or .svgz (in any case) writes the
\* source's bytes to scalable/apps/<slug>.png of every resolved target and
\* writes nothing else; when no other icon with a source shares its filename,
\* no size bucket holds a file of that name after the export.
C3_VectorGoesToScalableOnly ==
    /\ [][ (pc = "copy" /\ idx' = idx + 1 /\ VectorSource(icon_list[idx]))
             => /\ \A T \in ResolvedTargets :
                      /\ LayoutScalableFile(T, icon_list[idx]) \in DOMAIN files'
                      /\ files'[LayoutScalableFile(T, icon_list[idx])]
                             = files[icon_list[idx].source_path]
                /\ ChangedFiles \subseteq
                       {LayoutScalableFile(T, icon_list[idx]) : T \in ResolvedTargets}
                /\ dirs' = dirs ]_vars
    /\ [](AfterExport =>
            \A i \in 1..Len(icon_list) :
                (/\ VectorSource(icon_list[i])
                 /\ \A j \in 1..Len(icon_list) :
                        (j # i /\ Resolvable(icon_list[j]))
                            => ~SameFilename(icon_list[i], icon_list[j]))
                => \A T \in ResolvedTargets :
                       /\ \A s \in Sizes : LayoutSizeFile(T, s, icon_list[i]) \notin DOMAIN files
                       /\ files[LayoutScalableFile(T, icon_list[i])]
                              = files[icon_list[i].source_path])

C3_Witness ==
    /\ AfterExport
    /\ \E i \in 1..Len(icon_list) :
          /\ VectorSource(icon_list[i])
          /\ Suffix(icon_list[i].source_path) \notin {S_svg, S_svgz}
          /\ \A T \in ResolvedTargets :
                /\ LayoutScalableFile(T, icon_list[i]) \in DOMAIN files
                /\ \A s \in Sizes : LayoutSizeFile(T, s, icon_list[i]) \notin DOMAIN files

----------------------------------------------------------------------------
(* C4 *)

\* C4: after the export no bucket of any target holds a file for an icon
\* whose source_path is unset or names nothing on disk (and whose filename no
\* icon with a source shares), and the export has succeeded: it returned the
\* pack root.
C4_SkippedIconsAndExportSucceeds ==
    AfterExport =>
        /\ result = "returned"
        /\ \A i \in 1..Len(icon_list) :
              (/\ ~Resolvable(icon_list[i])
               /\ \A j \in 1..Len(icon_list) :
                      Resolvable(icon_list[j]) => ~SameFilename(icon_list[i], icon_list[j]))
              => \A T \in ResolvedTargets :
                     /\ LayoutScalableFile(T, icon_list[i]) \notin DOMAIN files
                     /\ \A s \in Sizes : LayoutSizeFile(T, s, icon_list[i]) \notin DOMAIN files

----------------------------------------------------------------------------
(* C5 *)

\* the names of the entries directly under the pack root
PackRootChildren ==
    {p[Len(p)] : p \in {q \in dirs \cup DOMAIN files :
                            /\ Len(q) = Len(LayoutPackRoot) + 1
                            /\ SubSeq(q, 1, Len(LayoutPackRoot)) = LayoutPackRoot}}

\* C5: when settings.targets names at least one of gnome/kde, the target
\* subdirectories under the pack root are exactly the configured known
\* targets: each of them holds <target>/<pack name>, and neither the other
\* known target nor an unrecognized name has a directory.
C5_ExactlyConfiguredTargets ==
    (AfterPrepare /\ ConfiguredKnown # {}) =>
        /\ \A T \in ConfiguredKnown : LayoutTargetRoot(T) \in dirs
        /\ PackRootChildren \ {S_descriptor} = ConfiguredKnown

C5_Witness ==
    /\ AfterExport
    /\ settings.targets = <<S_xfce, S_gnome>>
    /\ LayoutTargetRoot(S_gnome) \in dirs
    /\ LayoutPackRoot \o <<S_kde>> \notin dirs
    /\ LayoutPackRoot \o <<S_xfce>> \notin dirs

----------------------------------------------------------------------------
(* C6 *)

\* the theme roots of the targets assembly works on, in order
ProcessedRoots == [i \in 1..Len(targets) |-> targets[i].theme_root]

\* C6: the list of targets assembly works on is never empty, and when
\* settings.targets is empty or names neither gnome nor kde it is gnome
\* followed by kde.
C6_TargetsFallBackToBoth ==
    AfterPrepare =>
        /\ Len(targets) >= 1
        /\ (ConfiguredKnown = {}) =>
               ProcessedRoots = <<LayoutTargetRoot(S_gnome), LayoutTargetRoot(S_kde)>>

\* a list that is not empty and names no known target has been resolved
C6_Witness ==
    /\ AfterPrepare
    /\ settings.targets = <<S_xfce>>
    /\ ProcessedRoots = <<LayoutTargetRoot(S_gnome), LayoutTargetRoot(S_kde)>>
    /\ LayoutTargetRoot(S_gnome) \in dirs
    /\ LayoutTargetRoot(S_kde) \in dirs

----------------------------------------------------------------------------
(* C7 *)

\* "<s>x<s>/apps" for each configured size in order, then "scalable/apps"
ExpectedDirectories ==
    [i \in 1..Len(settings.base_sizes) |->
        IntToStr(settings.base_sizes[i]) \o <<"x">> \o IntToStr(settings.base_sizes[i])
            \o <<"/","a","p","p","s">>]
    \o << <<"s","c","a","l","a","b","l","e","/","a","p","p","s">> >>

IndexThemeConsistent(T) ==
    LET path == LayoutTargetRoot(T) \o <<S_index_theme>>
    IN  /\ path \in DOMAIN files
        /\ LET ini == files[path].theme
               listed == Split(ini.Directories, ",")
           IN  /\ listed = ExpectedDirectories
               /\ \A k \in 1..Len(listed) :
                      LayoutTargetRoot(T) \o Split(listed[k], "/") \in dirs
               /\ Len(ini.sections) = Len(listed)
               /\ \A k \in 1..Len(listed) :
                      /\ ini.sections[k].header = listed[k]
                      /\ IF k <= Len(settings.base_sizes)
                         THEN /\ ini.sections[k].Size = IntToStr(settings.base_sizes[k])
                              /\ ini.sections[k].Type = <<"F","i","x","e","d">>
                         ELSE /\ ini.sections[k].Size = <<"1","2","8">>
                              /\ ini.sections[k].Type = <<"S","c","a","l","a","b","l","e">>

\* C7: the index.theme of every target root lists "<s>x<s>/apps" for each s
\* of base_sizes in configured order followed by "scalable/apps", every listed
\* directory exists under the target root, and there is one section per
\* listed directory, in order, with Size=<s> and Type=Fixed for a size bucket
\* and Size=128 and Type=Scalable for scalable/apps.
C7_IndexThemeMatchesDirectories ==
    AfterPrepare => \A T \in ResolvedTargets : IndexThemeConsistent(T)

C7_Witness ==
    /\ AfterPrepare
    /\ settings.base_sizes = <<32, 16>>
    /\ Len(targets) = 2
    /\ \A T \in ResolvedTargets : IndexThemeConsistent(T)

----------------------------------------------------------------------------
(* C8, C9 *)

DescriptorAt(root) == root \o <<S_descriptor>>

DescriptorExists(root) ==
    DescriptorAt(root) \in DOMAIN files /\ "yaml" \in DOMAIN files[DescriptorAt(root)]

\* the descriptor lists the icons of the call in order, the i-th with the
\* source path sp(i), or with none where sp(i) is None
DescriptorListsIcons(root, sp(_)) ==
    /\ DescriptorExists(root)
    /\ LET doc == files[DescriptorAt(root)].yaml
       IN  /\ "icons" \in DOMAIN doc
           /\ Len(doc.icons) = Len(icon_list)
           /\ \A i \in 1..Len(icon_list) :
                  /\ doc.icons[i].name = icon_list[i].name
                  /\ IF sp(i) = None
                     THEN "source_path" \notin DOMAIN doc.icons[i]
                     ELSE /\ "source_path" \in DOMAIN doc.icons[i]
                          /\ doc.icons[i].source_path = PathStr(sp(i))

\* C8: after the export the descriptor at the pack root lists every input
\* icon in input order with its source_path as given, and the descriptor of
\* each target root lists them with source_path rewritten to that target's
\* scalable/apps/<slug>.png, or with none for an icon without a resolvable
\* source.
C8_DescriptorsListIcons ==
    AfterExport =>
        /\ DescriptorListsIcons(LayoutPackRoot, LAMBDA i : icon_list[i].source_path)
        /\ \A T \in ResolvedTargets :
               DescriptorListsIcons(LayoutTargetRoot(T),
                   LAMBDA i : IF Resolvable(icon_list[i])
                              THEN LayoutScalableFile(T, icon_list[i]) ELSE None)

\* C9: after the export the descriptor at the pack root and the one in each
\* target root exist, carry the pack's name under `name`, and have neither an
\* `output_dir` key nor an `icons` key.
C9_DescriptorsOmitOutputDirAndIcons ==
    AfterExport =>
        \A root \in {LayoutPackRoot} \cup {LayoutTargetRoot(T) : T \in ResolvedTargets} :
            /\ DescriptorExists(root)
            /\ files[DescriptorAt(root)].yaml.name = settings.name
            /\ "output_dir" \notin DOMAIN files[DescriptorAt(root)].yaml
            /\ "icons" \notin DOMAIN files[DescriptorAt(root)].yaml

----------------------------------------------------------------------------
(* save_project followed by load_project on the same path *)

S_project_yaml == <<"p","r","o","j","e","c","t",".","y","a","m","l">>

RtPath == <<S_out, S_project_yaml>>

HomeRelative == <<(<<"~">>), <<"x",".","p","n","g">>>>

RtIconPool ==
    {IconDefinition(<<"F","o","l","d","e","r">>, sp, cat) :
        sp \in {None, RasterA, HomeRelative}, cat \in {NoneStr, <<>>, S_apps}}

RtIconLists == UNION {[1..n -> RtIconPool] : n \in 0..MaxIcons}

RtSettings ==
    {PackSettings(<<"T">>, S_author, v, d, S_breeze, sz, od, tg) :
        v \in {DefaultVersion, <<"2">>},
        d \in {<<>>, <<"D","e","m","o">>},
        sz \in {<<32>>, <<>>},
        od \in {<<S_build>>, <<(<<"/">>), S_out>>},
        tg \in {<<S_kde>>, <<>>}}

\* save_project(path, settings, icons)
RtSave ==
    /\ rt.phase = "input"
    /\ LET r == save_project(dirs, files, RtPath, rt.settings, rt.icons)
       IN  /\ dirs' = r.dirs
           /\ files' = r.files
           /\ rt' = [rt EXCEPT !.phase = IF r.err = "" THEN "saved" ELSE "raised",
                               !.err = r.err]
    /\ UNCHANGED <<pc, settings, icon_list, targets, idx, result, calls, prev,
                   sl, tl, inst, ed>>

\* load_project(path)
RtLoad ==
    /\ rt.phase = "saved"
    /\ LET r == load_project(dirs, files, RtPath)
       IN  rt' = IF r.err = ""
                 THEN [rt EXCEPT !.phase = "loaded",
                                 !.loaded_settings = r.settings,
                                 !.loaded_icons = r.icons]
                 ELSE [rt EXCEPT !.phase = "raised", !.err = r.err]
    /\ UNCHANGED <<exportVars, sl, tl, inst, ed>>

InitRoundTrip ==
    /\ dirs = InitDirs
    /\ files = InitFiles
    /\ ExportIdle
    /\ sl = Off
    /\ tl = Off
    /\ inst = Off
    /\ ed = Off
    /\ \E st \in RtSettings, icons \in RtIconLists :
          rt = [phase |-> "input", settings |-> st, icons |-> icons, err |-> "",
                loaded_settings |-> NoSettings, loaded_icons |-> <<>>]

NextRoundTrip == RtSave \/ RtLoad

SpecRoundTrip == InitRoundTrip /\ [][NextRoundTrip]_vars

----------------------------------------------------------------------------
(* C10 *)

\* C10: load_project(save_project(path, settings, icons)) returns settings
\* equal to the saved ones on every field and the same number of icons in the
\* same order, each with equal name, category and source_path.
C10_RoundTripLaw ==
    (rt.phase \in {"loaded", "raised"}) =>
        /\ rt.phase = "loaded"
        /\ \A f \in {"name", "author", "version", "description", "inherits",
                     "base_sizes", "output_dir", "targets"} :
               rt.loaded_settings[f] = rt.settings[f]
        /\ Len(rt.loaded_icons) = Len(rt.icons)
        /\ \A i \in 1..Len(rt.icons) :
               /\ rt.loaded_icons[i].name = rt.icons[i].name
               /\ rt.loaded_icons[i].category = rt.icons[i].category
               /\ rt.loaded_icons[i].source_path = rt.icons[i].source_path

----------------------------------------------------------------------------
(* slugify on arbitrary text *)

SlugAlphabet == {"a", "B", "1", "-", " ", "!", "U+212A", "U+0130", "\t"}

SlugInputs == UNION {[1..n -> SlugAlphabet] : n \in 0..MaxSlugLen}

\* slugify(value) and slugify(slugify(value))
SlugApply ==
    /\ sl.phase = "input"
    /\ sl' = [phase |-> "done", value |-> sl.value,
              slug |-> slugify(sl.value),
              again |-> slugify(slugify(sl.value))]
    /\ UNCHANGED <<exportVars, rt, tl, inst, ed>>

InitSlug ==
    /\ dirs = InitDirs
    /\ files = InitFiles
    /\ ExportIdle
    /\ rt = RtOff
    /\ tl = Off
    /\ inst = Off
    /\ ed = Off
    /\ \E v \in SlugInputs : sl = [phase |-> "input", value |-> v]

NextSlug == SlugApply

SpecSlug == InitSlug /\ [][NextSlug]_vars

----------------------------------------------------------------------------
(* C11 *)

AsciiAlnum ==
    {"a","b","c","d","e","f","g","h","i","j","k","l","m",
     "n","o","p","q","r","s","t","u","v","w","x","y","z",
     "A","B","C","D","E","F","G","H","I","J","K","L","M",
     "N","O","P","Q","R","S","T","U","V","W","X","Y","Z",
     "0","1","2","3","4","5","6","7","8","9"}

SlugChars ==
    {"a","b","c","d","e","f","g","h","i","j","k","l","m",
     "n","o","p","q","r","s","t","u","v","w","x","y","z",
     "0","1","2","3","4","5","6","7","8","9","-"}

\* non-empty, only [a-z0-9-], no hyphen at either end and no two in a row
WellFormedSlug(g) ==
    /\ g # <<>>
    /\ \A i \in 1..Len(g) : g[i] \in SlugChars
    /\ g[1] # "-" /\ g[Len(g)] # "-"
    /\ \A i \in 1..(Len(g) - 1) : ~(g[i] = "-" /\ g[i + 1] = "-")

\* C11 as stated: slugify is idempotent, every input without an ASCII letter
\* or digit yields "icon-pack", and every result is a well-formed slug.
C11_SlugifyAsStated ==
    (sl.phase = "done") =>
        /\ sl.again = sl.slug
        /\ (\A i \in 1..Len(sl.value) : sl.value[i] \notin AsciiAlnum)
               => sl.slug = <<"i","c","o","n","-","p","a","c","k">>
        /\ WellFormedSlug(sl.slug)

\* C11 amended: slugify is idempotent, every input whose lower-cased form has
\* no character of [a-z0-9] yields "icon-pack", and every result is a
\* well-formed slug.
C11_SlugifyIdempotentWithFallback ==
    (sl.phase = "done") =>
        /\ sl.again = sl.slug
        /\ (\A c \in Range(Lower(sl.value)) : c \notin (SlugChars \ {"-"}))
               => sl.slug = <<"i","c","o","n","-","p","a","c","k">>
        /\ WellFormedSlug(sl.slug)

C11_Witness ==
    /\ sl.phase = "done"
    /\ sl.value = <<"!", "!", "!">>
    /\ sl.slug = <<"i","c","o","n","-","p","a","c","k">>
    /\ sl.again = sl.slug

----------------------------------------------------------------------------
(* theme_loader: collecting the icon files of a theme *)

S_png == <<".","p","n","g">>

_ALLOWED_SUFFIXES == {S_png, S_svg, S_svgz}

_ICON_SUBDIRS ==
    <<<<"a","p","p","s">>,
      <<"a","c","t","i","o","n","s">>,
      <<"s","t","a","t","u","s">>,
      <<"p","a","n","e","l">>,
      <<"u","i">>,
      <<"s","y","s","t","e","m">>,
      <<"d","e","v","i","c","e","s">>,
      <<"p","l","a","c","e","s">>,
      <<"c","a","t","e","g","o","r","i","e","s">>,
      <<"m","i","m","e","t","y","p","e","s">>>>

\* an optional int: None, or the given number
NoLimit == <<>>

Limit(n) == <<n>>

\* the orders in which a set of strings can be iterated
Orderings(S) ==
    {o \in [1..Cardinality(S) -> S] : \A i, j \in 1..Cardinality(S) : i # j => o[i] # o[j]}

\* s.endswith(suffix)
EndsWith(s, suffix) ==
    Len(s) >= Len(suffix) /\ SubSeq(s, Len(s) - Len(suffix) + 1, Len(s)) = suffix

\* Path.stem: the last component without its suffix
Stem(p) == LET nm == p[Len(p)] IN SubSeq(nm, 1, Len(nm) - Len(Suffix(p)))

\* Path.resolve(): symbolic links (ln: link path -> target) are followed from
\* the root down
RECURSIVE Resolve(_, _)
Resolve(ln, p) ==
    LET linked == IF DOMAIN ln = {} THEN {}
                  ELSE {k \in 1..Len(p) : SubSeq(p, 1, k) \in DOMAIN ln}
    IN  IF linked = {} THEN p
        ELSE LET k == CHOOSE i \in linked : \A j \in linked : i <= j
             IN  Resolve(ln, ln[SubSeq(p, 1, k)] \o SubSeq(p, k + 1, Len(p)))

\* Path.exists() and Path.is_dir(), both following links
LinkExists(ds, fl, ln, p) == Exists(ds, fl, Resolve(ln, p))

is_dir(ds, ln, p) == Resolve(ln, p) \in ds

\* where the entry a path names lies on disk: the links above it are
\* followed, the entry itself is not
OnDisk(ln, p) == IF p = <<>> THEN p ELSE Append(Resolve(ln, Parent(p)), p[Len(p)])

\* Path.is_symlink()
is_symlink(ln, p) == OnDisk(ln, p) \in DOMAIN ln

\* path.is_file(), following links
is_file(fl, ln, p) == Resolve(ln, p) \in DOMAIN fl

\* whether p, below theme_root, matches "**/{category}/**/*{suffix}": one of
\* its directory components is the category and its name ends with the suffix
GlobMatches(theme_root, category, suffix, p) ==
    /\ Len(p) > Len(theme_root)
    /\ SubSeq(p, 1, Len(theme_root)) = theme_root
    /\ \E i \in (Len(theme_root) + 1)..(Len(p) - 1) : p[i] = category
    /\ EndsWith(p[Len(p)], suffix)

\* os.scandir(directory): the entries of the directory the path leads to,
\* as directory / name, in the order in which the filesystem's enumeration
\* of the tree (listing: paths as they lie on disk) first reaches them
scandir(ln, listing, directory) ==
    LET real == Resolve(ln, directory)
        n == Len(real) + 1
        below == SelectSeq(listing, LAMBDA p : Len(p) >= n
                                               /\ \A i \in 1..(n - 1) : p[i] = real[i])
        first == SelectSeq([k \in 1..Len(below) |-> k],
                           LAMBDA k : \A j \in 1..(k - 1) : below[j][n] # below[k][n])
    IN  [i \in 1..Len(first) |-> Append(directory, below[first[i]][n])]

\* the walk of a "**" pattern part: the directory, then the walk of each of
\* its subdirectories in scandir order; an entry that is a symbolic link is
\* not walked
RECURSIVE IterateDirectories(_, _, _, _)
RECURSIVE IterateEach(_, _, _, _)
IterateDirectories(ds, ln, listing, directory) ==
    <<directory>>
        \o IterateEach(ds, ln, listing,
                       SelectSeq(scandir(ln, listing, directory),
                                 LAMBDA entry : is_dir(ds, ln, entry)
                                                    /\ ~is_symlink(ln, entry)))

IterateEach(ds, ln, listing, directories) ==
    IF directories = <<>> THEN <<>>
    ELSE IterateDirectories(ds, ln, listing, Head(directories))
             \o IterateEach(ds, ln, listing, Tail(directories))

\* the entries whose name matches "*{suffix}", of each directory of a list
RECURSIVE SelectNames(_, _, _, _)
SelectNames(ln, listing, directories, suffix) ==
    IF directories = <<>> THEN <<>>
    ELSE SelectSeq(scandir(ln, listing, Head(directories)),
                   LAMBDA entry : EndsWith(entry[Len(entry)], suffix))
             \o SelectNames(ln, listing, Tail(directories), suffix)

\* what "{category}/**/*{suffix}" selects from each directory of a list
RECURSIVE SelectBelow(_, _, _, _, _, _)
SelectBelow(ds, ln, listing, directories, category, suffix) ==
    IF directories = <<>> THEN <<>>
    ELSE LET start == Append(Head(directories), category)
         IN  (IF is_dir(ds, ln, start)
              THEN SelectNames(ln, listing,
                               IterateDirectories(ds, ln, listing, start), suffix)
              ELSE <<>>)
                 \o SelectBelow(ds, ln, listing, Tail(directories), category, suffix)

\* theme_root.glob("**/{category}/**/*{suffix}"), given the walk of the tree
\* from theme_root: at every directory of the walk that has a subdirectory
\* {category}, the tree below that subdirectory is walked and the matching
\* entries of each of its directories are yielded; a path is yielded once.
\* Every glob of one call walks the same unchanged tree, so the walk from
\* theme_root is the same for each pattern.
Glob(ds, ln, listing, walk, category, suffix) ==
    DictKeys(SelectBelow(ds, ln, listing, walk, category, suffix))

\* what theme_root.glob yields for the pattern of each category and each
\* suffix, given the walk of the tree from theme_root
GlobTable(ds, ln, listing, walk, suffixes) ==
    [ci \in 1..Len(_ICON_SUBDIRS) |->
        [si \in 1..Len(suffixes) |->
            Glob(ds, ln, listing, walk, _ICON_SUBDIRS[ci], suffixes[si])]]

GlobResults(ds, ln, listing, suffixes, theme_root) ==
    GlobTable(ds, ln, listing, IterateDirectories(ds, ln, listing, theme_root), suffixes)

\* the paths the three nested loops visit, each with its category, in order
RECURSIVE CollectVisits(_, _, _)
CollectVisits(yielded, ci, si) ==
    IF ci > Len(yielded) THEN <<>>
    ELSE IF si > Len(yielded[ci])
         THEN CollectVisits(yielded, ci + 1, 1)
         ELSE [k \in 1..Len(yielded[ci][si]) |->
                  [path |-> yielded[ci][si][k], category |-> _ICON_SUBDIRS[ci]]]
                  \o CollectVisits(yielded, ci, si + 1)

\* variant: a stem already seen is not skipped
RECURSIVE CollectLoop_NoSeen(_, _, _, _, _, _, _)
CollectLoop_NoSeen(fl, ln, visits, k, entries, seen, limit) ==
    IF k > Len(visits) THEN entries
    ELSE LET path == visits[k].path
             stem == Stem(path)
         IN  IF ~is_file(fl, ln, path)
             THEN CollectLoop_NoSeen(fl, ln, visits, k + 1, entries, seen, limit)
             ELSE LET appended == Append(entries, <<stem, path, visits[k].category>>)
                  IN  IF limit # NoLimit /\ Len(appended) >= limit[1]
                      THEN appended
                      ELSE CollectLoop_NoSeen(fl, ln, visits, k + 1, appended,
                                              seen \cup {stem}, limit)

\* the body of the innermost loop, from the k-th visited path on
RECURSIVE CollectLoop(_, _, _, _, _, _, _)
CollectLoop(fl, ln, visits, k, entries, seen, limit) ==
    IF k > Len(visits) THEN entries
    ELSE LET path == visits[k].path
             stem == Stem(path)
         IN  IF ~is_file(fl, ln, path)
             THEN CollectLoop(fl, ln, visits, k + 1, entries, seen, limit)
             ELSE IF stem \in seen
             THEN CollectLoop(fl, ln, visits, k + 1, entries, seen, limit)
             ELSE LET appended == Append(entries, <<stem, path, visits[k].category>>)
                  IN  IF limit # NoLimit /\ Len(appended) >= limit[1]
                      THEN appended
                      ELSE CollectLoop(fl, ln, visits, k + 1, appended,
                                       seen \cup {stem}, limit)

\* the loops of _collect_icon_entries over what the globs yield
CollectEntries(fl, ln, yielded, limit) ==
    CollectLoop(fl, ln, CollectVisits(yielded, 1, 1), 1, <<>>, {}, limit)

\* ln: the symbolic links of the disk; listing: the filesystem's enumeration
\* order of the tree; suffixes: the iteration order of the set
\* _ALLOWED_SUFFIXES in this process.  The paths of the entries are written
\* as they are reached from theme_root.
_collect_icon_entries(ds, fl, ln, listing, suffixes, theme_root, limit) ==
    CollectEntries(fl, ln,
                   GlobResults(ds, ln, [i \in 1..Len(listing) |-> OnDisk(ln, listing[i])],
                               suffixes, theme_root),
                   limit)

----------------------------------------------------------------------------
(* themes on disk for _collect_icon_entries *)

CollectRoot == <<(<<"/">>), <<"T">>>>

S_status == <<"s","t","a","t","u","s">>
S_actions == <<"a","c","t","i","o","n","s">>

\* icon files a theme may hold: stems f, n and g under several categories
\* and suffixes
CollectPool ==
    << CollectRoot \o <<S_apps, <<"4","8">>, <<"f",".","p","n","g">>>>,
       CollectRoot \o <<S_scalable, S_apps, <<"f",".","s","v","g">>>>,
       CollectRoot \o <<S_status, <<"n",".","s","v","g">>>>,
       CollectRoot \o <<S_apps, S_status, <<"n",".","p","n","g">>>>,
       CollectRoot \o <<S_status, <<"f",".","p","n","g">>>>,
       CollectRoot \o <<S_apps, <<"n",".","p","n","g">>>>,
       CollectRoot \o <<S_status, S_apps, <<"n",".","p","n","g">>>>,
       CollectRoot \o <<S_actions, <<"g",".","s","v","g","z">>>> >>

\* what every theme holds besides: a file outside the categories, a file
\* with another suffix, one with an upper-case suffix, and a directory named
\* like an icon
CollectNoiseFiles ==
    << CollectRoot \o <<<<"o","t","h","e","r">>, <<"y",".","p","n","g">>>>,
       CollectRoot \o <<S_apps, <<"z",".","t","x","t">>>>,
       CollectRoot \o <<S_apps, <<"U",".","P","N","G">>>> >>

CollectNoiseDir == CollectRoot \o <<S_apps, <<"d",".","p","n","g">>>>

\* the entries of /T/apps that a glob of the call can yield or descend into,
\* each named by a path that lies in it or below it
CollectAppsEntries(present) ==
    {CollectNoiseDir} \cup {p \in present : p[Len(CollectRoot) + 1] = S_apps}

\* the tree in the order the filesystem enumerates it.  Every directory is
\* enumerated in an order of its own; apps_order is the order of the entries
\* of /T/apps, the one directory of these trees where two entries can come
\* out of one glob in either order (/T itself is the first directory of every
\* walk, and no other directory holds two entries that one pattern selects
\* or two subdirectories that one pattern descends into).
CollectListing(present, apps_order) ==
    apps_order
        \o SelectSeq(CollectPool, LAMBDA p : p \in present \ Range(apps_order))
        \o CollectNoiseFiles

CollectLimits == {NoLimit} \cup {Limit(n) : n \in 0..MaxLimit}

\* _collect_icon_entries(theme_root, limit) and, on the same tree in the same
\* process, _collect_icon_entries(theme_root, None); yielded keeps what
\* theme_root.glob returns for each category and suffix
Collected(t, yielded, limit) ==
    [phase |-> "done", listing |-> t.listing, suffixes |-> t.suffixes,
     limit |-> limit, yielded |-> yielded,
     entries |-> CollectEntries(files, <<>>, yielded, limit),
     unlimited |-> CollectEntries(files, <<>>, yielded, NoLimit)]

CollectEach(yielded) ==
    \E limit \in CollectLimits : tl' = Collected(tl, yielded, limit)

Collect ==
    /\ tl.phase = "input"
    /\ CollectEach(GlobResults(dirs, <<>>, tl.listing, tl.suffixes, CollectRoot))
    /\ UNCHANGED <<exportVars, rt, sl, inst, ed>>

InitCollect ==
    /\ ExportIdle
    /\ rt = RtOff
    /\ sl = Off
    /\ inst = Off
    /\ ed = Off
    /\ \E present \in SUBSET Range(CollectPool),
          suffixes \in Orderings(_ALLOWED_SUFFIXES) :
       \E apps_order \in Orderings(CollectAppsEntries(present)) :
          /\ files = [p \in present \cup Range(CollectNoiseFiles) |-> [bytes |-> 1]]
          /\ dirs = {CollectNoiseDir}
                      \cup UNION {Prefixes(Parent(p)) :
                                     p \in present \cup Range(CollectNoiseFiles)}
          /\ tl = [phase |-> "input", listing |-> CollectListing(present, apps_order),
                   suffixes |-> suffixes]

NextCollect == Collect

SpecCollect == InitCollect /\ [][NextCollect]_vars

----------------------------------------------------------------------------
(* C12, C13 *)

IsPrefixOf(a, b) == Len(a) <= Len(b) /\ a = SubSeq(b, 1, Len(a))

MinOf(a, b) == IF a <= b THEN a ELSE b

\* C12 as stated: with a limit n >= 0 the result has exactly
\* min(n, length of the unlimited result) entries, hence at most n, and is a
\* prefix of the unlimited result.
C12_LimitCapsAndIsPrefix ==
    (tl.phase = "done" /\ tl.limit # NoLimit) =>
        /\ Len(tl.entries) <= tl.limit[1]
        /\ Len(tl.entries) = MinOf(tl.limit[1], Len(tl.unlimited))
        /\ IsPrefixOf(tl.entries, tl.unlimited)

\* what holds of the code: a limit n >= 1 caps the result at min(n, total) and
\* any limited result is a prefix of the unlimited one; limit 0 yields one entry
\* when the theme has any
C12_LimitFromOneCapsAndIsPrefix ==
    (tl.phase = "done" /\ tl.limit # NoLimit) =>
        /\ IsPrefixOf(tl.entries, tl.unlimited)
        /\ tl.limit[1] >= 1 => Len(tl.entries) = MinOf(tl.limit[1], Len(tl.unlimited))
        /\ tl.limit[1] = 0 => Len(tl.entries) = MinOf(1, Len(tl.unlimited))

\* the files the filesystem yields for one category and one extension, in
\* the order in which it yields them
Enumerated(ci, si) == SelectSeq(tl.yielded[ci][si], LAMBDA p : p \in DOMAIN files)

\* the visits of a file: category index c, extension index s, position k in
\* the enumeration
FileVisits ==
    UNION {{[c |-> ci, s |-> si, k |-> k, path |-> Enumerated(ci, si)[k]] :
               k \in 1..Len(Enumerated(ci, si))} :
              ci \in 1..Len(_ICON_SUBDIRS), si \in 1..Len(tl.suffixes)}

\* the files of the tree below a directory named like a category, with an
\* allowed suffix
MatchingFiles ==
    {p \in DOMAIN files :
        \E ci \in 1..Len(_ICON_SUBDIRS), si \in 1..Len(tl.suffixes) :
            GlobMatches(CollectRoot, _ICON_SUBDIRS[ci], tl.suffixes[si], p)}

\* v is met before w: category order, then extension order, then file order
MetBefore(v, w) ==
    \/ v.c < w.c
    \/ v.c = w.c /\ v.s < w.s
    \/ v.c = w.c /\ v.s = w.s /\ v.k < w.k

FirstVisitOf(V, stem) ==
    CHOOSE v \in V :
        /\ Stem(v.path) = stem
        /\ \A w \in V : Stem(w.path) = stem /\ w # v => MetBefore(v, w)

\* C13: no two entries share a stem; every stem with a matching file has
\* exactly the entry of the first file met in category, extension, file
\* order, with the category of that visit; a file only under status/ gets
\* category "status".
C13_FirstMetStemWins ==
    (tl.phase = "done") =>
        LET E == tl.unlimited
            V == FileVisits
        IN
        /\ \A i, j \in 1..Len(E) : i # j => E[i][1] # E[j][1]
        /\ {v.path : v \in V} = MatchingFiles
        /\ {E[i][1] : i \in 1..Len(E)} = {Stem(p) : p \in MatchingFiles}
        /\ \A i \in 1..Len(E) :
              LET v == FirstVisitOf(V, E[i][1]) IN
              /\ E[i][2] = v.path
              /\ E[i][3] = _ICON_SUBDIRS[v.c]
        /\ \A i \in 1..Len(tl.entries) :
              \A j \in 1..Len(tl.entries) : i # j => tl.entries[i][1] # tl.entries[j][1]
        /\ \A i \in 1..Len(E) :
              (\A v \in V : Stem(v.path) = E[i][1] => _ICON_SUBDIRS[v.c] = S_status)
                  => E[i][3] = S_status

\* the same stem under apps/ (twice), status/ (twice) and apps/status/: one
\* entry, found under apps although the walk for status meets
\* status/apps/n.png before apps/status/n.png
C13_Witness ==
    /\ tl.phase = "done"
    /\ Cardinality({p \in MatchingFiles : Stem(p) = <<"n">>}) >= 4
    /\ Len(tl.unlimited) = 3
    /\ \E i \in 1..3 : tl.unlimited[i][1] = <<"n">> /\ tl.unlimited[i][3] = S_apps
    /\ \E v, w \in FileVisits :
          /\ v.c = w.c /\ v.s = w.s /\ v.k < w.k
          /\ \E a, b \in 1..Len(tl.listing) :
                a < b /\ tl.listing[a] = w.path /\ tl.listing[b] = v.path

----------------------------------------------------------------------------
(* theme_loader: finding themes in the search roots *)

S_adwaita == <<"a","d","w","a","i","t","a">>
S_hicolor == <<"h","i","c","o","l","o","r">>
S_nonexistent == <<"n","o","n","e","x","i","s","t","e","n","t">>
S_Zed == <<"Z","e","d">>
S_f_png == <<"f",".","p","n","g">>

_PREFERRED_THEMES == <<S_breeze, S_adwaita, S_hicolor>>

_SYSTEM_ICON_DIRS ==
    << HomeDir \o <<<<".","l","o","c","a","l">>, <<"s","h","a","r","e">>, <<"i","c","o","n","s">>>>,
       HomeDir \o <<<<".","i","c","o","n","s">>>>,
       <<(<<"/">>), <<"u","s","r">>, <<"s","h","a","r","e">>, <<"i","c","o","n","s">>>>,
       <<(<<"/">>), <<"u","s","r">>, <<"l","o","c","a","l">>, <<"s","h","a","r","e">>, <<"i","c","o","n","s">>>> >>

\* characters in code point order
CharOrder ==
    <<"-",".","0","1","2","3","4","5","6","7","8","9","A",
      "B","C","D","E","F","G","H","I","J","K","L","M","N",
      "O","P","Q","R","S","T","U","V","W","X","Y","Z","_",
      "a","b","c","d","e","f","g","h","i","j","k","l","m",
      "n","o","p","q","r","s","t","u","v","w","x","y","z">>

Ord(c) == CHOOSE i \in 1..Len(CharOrder) : CharOrder[i] = c

\* a < b for str
RECURSIVE StrLess(_, _)
StrLess(a, b) ==
    IF b = <<>> THEN FALSE
    ELSE IF a = <<>> THEN TRUE
    ELSE IF a[1] = b[1] THEN StrLess(Tail(a), Tail(b))
    ELSE Ord(a[1]) < Ord(b[1])

\* base.iterdir(): the entries of the directory, as base / name
iterdir(ds, fl, ln, base) ==
    {base \o <<e[Len(e)]>> :
        e \in {x \in ds \cup DOMAIN fl \cup DOMAIN ln :
                  x # <<>> /\ Parent(x) = Resolve(ln, base) /\ x # Resolve(ln, base)}}

\* sorted(...) of the entries of one directory
RECURSIVE SortedPaths(_)
SortedPaths(S) ==
    IF S = {} THEN <<>>
    ELSE LET least == CHOOSE p \in S :
                          \A r \in S : r # p => StrLess(p[Len(p)], r[Len(r)])
         IN  <<least>> \o SortedPaths(S \ {least})

ThemeCandidate(name, path) == [name |-> name, path |-> path]

SearchRoots(extra_search_paths) == extra_search_paths \o _SYSTEM_ICON_DIRS

\* variant: a theme directory already seen is listed again
RECURSIVE ListChildren_NoSeen(_, _, _, _, _, _, _)
ListChildren_NoSeen(ds, fl, ln, children, k, candidates, seen) ==
    IF k > Len(children) THEN [candidates |-> candidates, seen |-> seen]
    ELSE LET child == children[k]
         IN  IF ~is_dir(ds, ln, child)
                 \/ ~LinkExists(ds, fl, ln, child \o <<S_index_theme>>)
             THEN ListChildren_NoSeen(ds, fl, ln, children, k + 1, candidates, seen)
             ELSE ListChildren_NoSeen(ds, fl, ln, children, k + 1,
                      Append(candidates, ThemeCandidate(child[Len(child)], child)),
                      seen \cup {PathStr(Resolve(ln, child))})

\* the inner loop of list_installed_themes over the sorted children of a root
RECURSIVE ListChildren(_, _, _, _, _, _, _)
ListChildren(ds, fl, ln, children, k, candidates, seen) ==
    IF k > Len(children) THEN [candidates |-> candidates, seen |-> seen]
    ELSE LET child == children[k]
         IN  IF ~is_dir(ds, ln, child)
                 \/ ~LinkExists(ds, fl, ln, child \o <<S_index_theme>>)
                 \/ PathStr(Resolve(ln, child)) \in seen
             THEN ListChildren(ds, fl, ln, children, k + 1, candidates, seen)
             ELSE ListChildren(ds, fl, ln, children, k + 1,
                      Append(candidates, ThemeCandidate(child[Len(child)], child)),
                      seen \cup {PathStr(Resolve(ln, child))})

\* the outer loop of list_installed_themes over the search roots
RECURSIVE ListRoots(_, _, _, _, _, _, _)
ListRoots(ds, fl, ln, search_roots, r, candidates, seen) ==
    IF r > Len(search_roots) THEN candidates
    ELSE LET base == search_roots[r]
         IN  IF ~LinkExists(ds, fl, ln, base) \/ ~is_dir(ds, ln, base)
             THEN ListRoots(ds, fl, ln, search_roots, r + 1, candidates, seen)
             ELSE LET done == ListChildren(ds, fl, ln,
                                  SortedPaths(iterdir(ds, fl, ln, base)), 1,
                                  candidates, seen)
                  IN  ListRoots(ds, fl, ln, search_roots, r + 1,
                                done.candidates, done.seen)

list_installed_themes(ds, fl, ln, extra_search_paths) ==
    ListRoots(ds, fl, ln, SearchRoots(extra_search_paths), 1, <<>>, {})

\* variant: the search roots are the outer loop, the names the inner one
RECURSIVE DiscoverLoop_RootsOuter(_, _, _, _, _, _, _)
DiscoverLoop_RootsOuter(ds, fl, ln, themes, search_roots, t, b) ==
    IF b > Len(search_roots) THEN None
    ELSE IF t > Len(themes)
         THEN DiscoverLoop_RootsOuter(ds, fl, ln, themes, search_roots, 1, b + 1)
         ELSE LET candidate == search_roots[b] \o <<themes[t]>>
              IN  IF LinkExists(ds, fl, ln, candidate) /\ is_dir(ds, ln, candidate)
                  THEN candidate
                  ELSE DiscoverLoop_RootsOuter(ds, fl, ln, themes, search_roots, t + 1, b)

\* the two loops of _discover_theme_root, from name t and root b on
RECURSIVE DiscoverLoop(_, _, _, _, _, _, _)
DiscoverLoop(ds, fl, ln, themes, search_roots, t, b) ==
    IF t > Len(themes) THEN None
    ELSE IF b > Len(search_roots)
         THEN DiscoverLoop(ds, fl, ln, themes, search_roots, t + 1, 1)
         ELSE LET candidate == search_roots[b] \o <<themes[t]>>
              IN  IF LinkExists(ds, fl, ln, candidate) /\ is_dir(ds, ln, candidate)
                  THEN candidate
                  ELSE DiscoverLoop(ds, fl, ln, themes, search_roots, t, b + 1)

_discover_theme_root(ds, fl, ln, themes, extra_search_paths) ==
    DiscoverLoop(ds, fl, ln, themes, SearchRoots(extra_search_paths), 1, 1)

\* the keyword arguments _build_icon_definitions passes to IconDefinition(...)
BuildIconKwargs ==
    {"name", "glyph", "background", "foreground", "source_path", "category"}

\* IconDefinition(...) raises TypeError for a keyword that is not a field
_build_icon_definitions(entries) ==
    IF entries = <<>> THEN [err |-> "ok", icons |-> <<>>]
    ELSE IF ~(BuildIconKwargs \subseteq IconDefinitionFields)
         THEN [err |-> "TypeError", icons |-> <<>>]
         ELSE [err |-> "ok",
               icons |-> [i \in 1..Len(entries) |->
                             IconDefinition(entries[i][1], entries[i][2], entries[i][3])]]

BlueprintLoadResult(icons, source_theme, needs_selection) ==
    [err |-> "ok", icons |-> icons, source_theme |-> source_theme,
     needs_selection |-> needs_selection]

\* variant: a theme without icon entries is still reported as the source
load_icon_blueprint_SourceKept(ds, fl, ln, listing, suffixes, preferred_themes, limit, extras) ==
    LET themes == IF preferred_themes # <<>> THEN preferred_themes ELSE _PREFERRED_THEMES
        root == _discover_theme_root(ds, fl, ln, themes, extras)
        entries == _collect_icon_entries(ds, fl, ln, listing, suffixes, root, limit)
        built == _build_icon_definitions(entries)
    IN  IF root = None THEN BlueprintLoadResult(<<>>, NoneStr, TRUE)
        ELSE IF entries = <<>> THEN BlueprintLoadResult(<<>>, root[Len(root)], TRUE)
        ELSE IF built.err # "ok"
             THEN [err |-> built.err, icons |-> <<>>, source_theme |-> NoneStr,
                   needs_selection |-> FALSE]
             ELSE BlueprintLoadResult(built.icons, root[Len(root)], FALSE)

\* listing, suffixes: as for _collect_icon_entries
load_icon_blueprint(ds, fl, ln, listing, suffixes, preferred_themes, limit, extras) ==
    LET themes == IF preferred_themes # <<>> THEN preferred_themes ELSE _PREFERRED_THEMES
        root == _discover_theme_root(ds, fl, ln, themes, extras)
        entries == _collect_icon_entries(ds, fl, ln, listing, suffixes, root, limit)
        built == _build_icon_definitions(entries)
        nothing == BlueprintLoadResult(<<>>, NoneStr, TRUE)
    IN  IF root = None THEN nothing
        ELSE IF entries = <<>> THEN nothing
        ELSE IF built.err # "ok"
             THEN [err |-> built.err, icons |-> <<>>, source_theme |-> NoneStr,
                   needs_selection |-> FALSE]
             ELSE BlueprintLoadResult(built.icons, root[Len(root)], FALSE)

----------------------------------------------------------------------------
(* search roots on disk *)

XRoot == <<(<<"/">>), <<"x">>>>

\* a symbolic link to XRoot
LRoot == <<(<<"/">>), <<"l">>>>

SysDot == _SYSTEM_ICON_DIRS[2]

SysUsr == _SYSTEM_ICON_DIRS[3]

ThemeDir(p) == [dirs |-> {p}, files |-> {p \o <<S_index_theme>>}, links |-> {}]

NothingAt == [dirs |-> {}, files |-> {}, links |-> {}]

\* what is at `at`: nothing, a directory with an index.theme, one without, a
\* regular file, or a link to `to`
Entry(kind, at, to) ==
    CASE kind = "theme" -> ThemeDir(at)
      [] kind = "plain" -> [dirs |-> {at}, files |-> {}, links |-> {}]
      [] kind = "file" -> [dirs |-> {}, files |-> {at}, links |-> {}]
      [] kind = "link" -> [dirs |-> {}, files |-> {}, links |-> {<<at, to>>}]
      [] OTHER -> NothingAt

\* the icon file under /usr/share/icons/breeze, when that theme exists
BreezeIcon == SysUsr \o <<S_breeze, S_apps, S_f_png>>

\* the icon file under XRoot/breeze, when that theme exists
XBreezeIcon == XRoot \o <<S_breeze, S_apps, S_f_png>>

\* the enumeration order of the icon files of the disk
RegistryListing == <<BreezeIcon, XBreezeIcon>>

RegistryKinds ==
    [xb : {"absent", "theme", "plain", "file"}, ub : {"absent", "theme"},
     hb : {"absent", "link", "theme"}, xa : {"absent", "theme"},
     ua : {"absent", "theme"}]

\* the tree for one choice of kinds: ~/.local/share/icons is missing,
\* /usr/local/share/icons is a regular file, XRoot always holds the theme Zed
\* and a file index.theme of its own
RegistryParts(k) ==
    { Entry(k.xb, XRoot \o <<S_breeze>>, None),
      Entry(k.ub, SysUsr \o <<S_breeze>>, None),
      Entry(k.hb, SysDot \o <<S_breeze>>, XRoot \o <<S_breeze>>),
      Entry(k.xa, XRoot \o <<S_adwaita>>, None),
      Entry(k.ua, SysUsr \o <<S_adwaita>>, None),
      Entry("theme", XRoot \o <<S_Zed>>, None),
      Entry("file", XRoot \o <<S_index_theme>>, None),
      Entry("file", _SYSTEM_ICON_DIRS[4], None),
      Entry("link", LRoot, XRoot),
      [dirs |-> Prefixes(XRoot) \cup Prefixes(SysDot) \cup Prefixes(SysUsr)
                   \cup Prefixes(Parent(_SYSTEM_ICON_DIRS[4])),
       files |-> {}, links |-> {}],
      IF k.ub = "theme"
      THEN [dirs |-> {Parent(BreezeIcon)}, files |-> {BreezeIcon}, links |-> {}]
      ELSE NothingAt,
      IF k.xb = "theme"
      THEN [dirs |-> {Parent(XBreezeIcon)}, files |-> {XBreezeIcon}, links |-> {}]
      ELSE NothingAt }

ExtraPool == {XRoot, LRoot, SysUsr}

ExtraLists == UNION {[1..n -> ExtraPool] : n \in 0..MaxExtra}

\* preferred_themes: none given, or a list
PreferredLists == {<<>>, <<S_adwaita, S_breeze>>, <<S_nonexistent>>}

LinksOf(pairs) == [p \in {pr[1] : pr \in pairs} |-> (CHOOSE pr \in pairs : pr[1] = p)[2]]

\* list_installed_themes(extra_search_paths)
ListThemes ==
    /\ tl.phase = "roots"
    /\ tl' = [phase |-> "listed", links |-> tl.links, extras |-> tl.extras,
              candidates |-> list_installed_themes(dirs, files, tl.links, tl.extras)]
    /\ UNCHANGED <<exportVars, rt, sl, inst, ed>>

\* load_icon_blueprint(preferred_themes, None, extra_search_paths)
LoadBlueprint(preferred_themes) ==
    /\ tl.phase = "roots"
    /\ tl' = [phase |-> "loaded", links |-> tl.links, extras |-> tl.extras,
              themes |-> IF preferred_themes # <<>> THEN preferred_themes
                         ELSE _PREFERRED_THEMES,
              root |-> _discover_theme_root(dirs, files, tl.links,
                           IF preferred_themes # <<>> THEN preferred_themes
                           ELSE _PREFERRED_THEMES, tl.extras),
              result |-> load_icon_blueprint(dirs, files, tl.links, RegistryListing,
                             <<S_png, S_svg, S_svgz>>, preferred_themes, NoLimit,
                             tl.extras)]
    /\ UNCHANGED <<exportVars, rt, sl, inst, ed>>

InitRegistry ==
    /\ ExportIdle
    /\ rt = RtOff
    /\ sl = Off
    /\ inst = Off
    /\ ed = Off
    /\ \E k \in RegistryKinds, extras \in ExtraLists :
          /\ dirs = UNION {part.dirs : part \in RegistryParts(k)}
          /\ files = [p \in UNION {part.files : part \in RegistryParts(k)} |-> [bytes |-> 1]]
          /\ tl = [phase |-> "roots",
                   links |-> LinksOf(UNION {part.links : part \in RegistryParts(k)}),
                   extras |-> extras]

NextRegistry ==
    \/ ListThemes
    \/ \E preferred_themes \in PreferredLists : LoadBlueprint(preferred_themes)

SpecRegistry == InitRegistry /\ [][NextRegistry]_vars

----------------------------------------------------------------------------
(* C14, C15 *)

RegRoots == SearchRoots(tl.extras)

\* (root index, child) pairs list_installed_themes may list: the root is a
\* directory, the child a directory in it that holds an index.theme
Eligible ==
    {e \in (1..Len(RegRoots)) \X (dirs \cup DOMAIN files \cup DOMAIN tl.links) :
        /\ is_dir(dirs, tl.links, RegRoots[e[1]])
        /\ e[2] # <<>> /\ Parent(e[2]) = Resolve(tl.links, RegRoots[e[1]])
        /\ is_dir(dirs, tl.links, e[2])
        /\ LinkExists(dirs, files, tl.links, e[2] \o <<S_index_theme>>)}

EligibleName(e) == e[2][Len(e[2])]

\* e comes before f in traversal order: root order, then name order
VisitedBefore(e, f) ==
    e[1] < f[1] \/ (e[1] = f[1] /\ StrLess(EligibleName(e), EligibleName(f)))

\* the first eligible pair that reaches the same directory as e
FirstReaching(e) ==
    CHOOSE f \in Eligible :
        /\ Resolve(tl.links, f[2]) = Resolve(tl.links, e[2])
        /\ \A g \in Eligible :
              Resolve(tl.links, g[2]) = Resolve(tl.links, e[2]) /\ g # f
                  => VisitedBefore(f, g)

FirstEligible == {e \in Eligible : FirstReaching(e) = e}

\* C14: no two candidates resolve to the same path; the candidates are exactly
\* the first visits, in traversal order (extra paths before system roots,
\* sorted children within a root), of the directories that directly hold an
\* index.theme, each named by its root and child name.
C14_ThemesListedOncePerResolvedPath ==
    (tl.phase = "listed") =>
        LET C == tl.candidates IN
        /\ \A i, j \in 1..Len(C) :
              i # j => Resolve(tl.links, C[i].path) # Resolve(tl.links, C[j].path)
        /\ \A i \in 1..Len(C) :
              /\ is_dir(dirs, tl.links, C[i].path)
              /\ LinkExists(dirs, files, tl.links, C[i].path \o <<S_index_theme>>)
              /\ C[i].name = C[i].path[Len(C[i].path)]
        /\ Len(C) = Cardinality(FirstEligible)
        /\ \A e \in FirstEligible :
              C[Cardinality({f \in FirstEligible : VisitedBefore(f, e)}) + 1].path
                  = RegRoots[e[1]] \o <<EligibleName(e)>>

\* the theme directories of XRoot are reached through the link, through XRoot
\* itself and through ~/.icons/breeze, and listed once, under the link
C14_Witness ==
    /\ tl.phase = "listed"
    /\ tl.extras = <<LRoot, XRoot>>
    /\ Cardinality(Eligible) >= 7
    /\ Len(tl.candidates) = 3
    /\ tl.candidates[1].path = LRoot \o <<S_Zed>>
    /\ tl.candidates[3].path = LRoot \o <<S_breeze>>

\* (name index, root index) pairs whose <root>/<name> is a directory
Combos ==
    {c \in (1..Len(tl.themes)) \X (1..Len(RegRoots)) :
        /\ LinkExists(dirs, files, tl.links, RegRoots[c[2]] \o <<tl.themes[c[1]]>>)
        /\ is_dir(dirs, tl.links, RegRoots[c[2]] \o <<tl.themes[c[1]]>>)}

\* C15: _discover_theme_root returns <root>/<name> of the combination that is
\* first with names in the outer loop and roots (extra paths, then system
\* roots) in the inner loop; with no combination it returns nothing and
\* load_icon_blueprint reports needs_selection with no icons and no source theme.
C15_DiscoverNamesOuterRootsInner ==
    (tl.phase = "loaded") =>
        /\ (Combos = {}) =>
              /\ tl.root = None
              /\ tl.result = [err |-> "ok", icons |-> <<>>, source_theme |-> NoneStr,
                              needs_selection |-> TRUE]
        /\ (Combos # {}) =>
              \E c \in Combos :
                  /\ tl.root = RegRoots[c[2]] \o <<tl.themes[c[1]]>>
                  /\ \A d \in Combos :
                        c[1] < d[1] \/ (c[1] = d[1] /\ c[2] <= d[2])

\* adwaita only in a system root, breeze in the extra path: adwaita is chosen
C15_Witness ==
    /\ tl.phase = "loaded"
    /\ tl.themes = <<S_adwaita, S_breeze>>
    /\ tl.extras = <<XRoot>>
    /\ <<2, 1>> \in Combos
    /\ tl.root = SysUsr \o <<S_adwaita>>

----------------------------------------------------------------------------
(* Installing an exported pack (install_icon_pack) *)

\* the output of assembly: the pack root and the per-target theme roots
\* created beneath it
ExportResult(pack_root, theme_roots) ==
    [pack_root |-> pack_root, theme_roots |-> theme_roots]

\* directories the process may not write into
ReadOnlyDirs == {SysUsr}

\* variant: the directories are created, the files are not copied
copytree_DirsOnly(ds, fl, source, dest) ==
    IF \E a \in Prefixes(dest) : a \in DOMAIN fl
    THEN [err |-> "NotADirectoryError", dirs |-> ds, files |-> fl]
    ELSE IF \E a \in Prefixes(dest) : a \in ReadOnlyDirs
    THEN [err |-> "PermissionError", dirs |-> ds, files |-> fl]
    ELSE [err |-> "",
          dirs |-> ds \cup Prefixes(dest)
                      \cup {dest \o SubSeq(d, Len(source) + 1, Len(d)) :
                               d \in {x \in ds : Len(x) > Len(source)
                                          /\ SubSeq(x, 1, Len(source)) = source}},
          files |-> fl]

\* copy/merge the tree at source into dest, creating dest and its parents;
\* fails when a component of dest is a regular file or dest lies in a
\* directory that may not be written
copytree(ds, fl, source, dest) ==
    IF \E a \in Prefixes(dest) : a \in DOMAIN fl
    THEN [err |-> "NotADirectoryError", dirs |-> ds, files |-> fl]
    ELSE IF \E a \in Prefixes(dest) : a \in ReadOnlyDirs
    THEN [err |-> "PermissionError", dirs |-> ds, files |-> fl]
    ELSE LET below(S) == {x \in S : Len(x) > Len(source)
                                     /\ SubSeq(x, 1, Len(source)) = source}
             moved(x) == dest \o SubSeq(x, Len(source) + 1, Len(x))
             copied == {moved(x) : x \in below(DOMAIN fl)}
         IN  [err |-> "",
              dirs |-> ds \cup Prefixes(dest) \cup {moved(d) : d \in below(ds)},
              files |-> [f \in DOMAIN fl \cup copied |->
                            IF f \in copied
                            THEN fl[CHOOSE x \in below(DOMAIN fl) : moved(x) = f]
                            ELSE fl[f]]]

\* variant: the install roots are the outer loop, the targets the inner one
InstallAttempts_RootMajor(ds, export_result, install_roots) ==
    LET present == SelectSeq(export_result.theme_roots, LAMBDA tr : tr \in ds)
        R == Len(install_roots)
        T == Len(present)
    IN  [k \in 1..(T * R) |->
            [source |-> present[((k - 1) % T) + 1],
             root |-> install_roots[((k - 1) \div T) + 1]]]

\* the (target, install root) pairs in the order they are attempted: for each
\* target present under the pack root, for each install root
InstallAttempts(ds, export_result, install_roots) ==
    LET present == SelectSeq(export_result.theme_roots, LAMBDA tr : tr \in ds)
        R == Len(install_roots)
    IN  [k \in 1..(Len(present) * R) |->
            [source |-> present[((k - 1) \div R) + 1],
             root |-> install_roots[((k - 1) % R) + 1]]]

\* variant: the first failed copy ends the loop
RECURSIVE InstallLoop_StopAtFailure(_, _, _, _, _, _)
InstallLoop_StopAtFailure(ds, fl, attempts, k, installed, failures) ==
    IF k > Len(attempts)
    THEN [dirs |-> ds, files |-> fl, installed |-> installed, failures |-> failures]
    ELSE LET dest == attempts[k].root \o <<attempts[k].source[Len(attempts[k].source)]>>
             r == copytree(ds, fl, attempts[k].source, dest)
         IN  IF r.err = ""
             THEN InstallLoop_StopAtFailure(r.dirs, r.files, attempts, k + 1,
                                            Append(installed, dest), failures)
             ELSE [dirs |-> ds, files |-> fl, installed |-> installed,
                   failures |-> Append(failures, <<dest, r.err>>)]

\* the attempts from the k-th on: copy into <root>/<pack name>, record the
\* outcome, go on
RECURSIVE InstallLoop(_, _, _, _, _, _)
InstallLoop(ds, fl, attempts, k, installed, failures) ==
    IF k > Len(attempts)
    THEN [dirs |-> ds, files |-> fl, installed |-> installed, failures |-> failures]
    ELSE LET dest == attempts[k].root \o <<attempts[k].source[Len(attempts[k].source)]>>
             r == copytree(ds, fl, attempts[k].source, dest)
         IN  IF r.err = ""
             THEN InstallLoop(r.dirs, r.files, attempts, k + 1,
                              Append(installed, dest), failures)
             ELSE InstallLoop(ds, fl, attempts, k + 1, installed,
                              Append(failures, <<dest, r.err>>))

install_icon_pack(ds, fl, export_result, install_roots) ==
    InstallLoop(ds, fl, InstallAttempts(ds, export_result, install_roots), 1, <<>>, <<>>)

----------------------------------------------------------------------------
(* export followed by install *)

S_icons == <<"i","c","o","n","s">>

\* install roots: one to be created, one that exists, a system-wide root
\* that may not be written, and a path that is a regular file
InstallRootPool == {<<S_icons>>, <<S_in>>, SysUsr, RasterA}

InstallRootLists == UNION {[1..n -> InstallRootPool] : n \in 0..MaxRoots}

InstallSettings ==
    {PackSettings(<<"m","y"," ","P">>, S_author, DefaultVersion, <<>>, S_breeze,
                  <<32>>, <<S_out>>, tg) : tg \in {<<>>, <<S_kde>>}}

InstallIconLists ==
    { <<IconDefinition(<<"f">>, RasterA, NoneStr)>>,
      <<IconDefinition(<<"f">>, RasterA, NoneStr),
        IconDefinition(<<"F"," ">>, RasterB, NoneStr)>>,
      <<IconDefinition(<<"f">>, VectorB, NoneStr),
        IconDefinition(<<"!">>, None, NoneStr)>> }

\* install_icon_pack(ExportResult for the tree the export put on disk, roots)
Install(install_roots) ==
    /\ pc \in {"returned", "raised"}
    /\ targets # <<>>
    /\ inst = Off
    /\ LET export_result ==
               ExportResult(PackRoot(settings),
                            [i \in 1..Len(targets) |-> targets[i].theme_root])
           r == install_icon_pack(dirs, files, export_result, install_roots)
       IN  /\ dirs' = r.dirs
           /\ files' = r.files
           /\ inst' = [phase |-> "done", err |-> "", export_result |-> export_result,
                       roots |-> install_roots, installed |-> r.installed,
                       failures |-> r.failures]
    /\ UNCHANGED <<pc, settings, icon_list, targets, idx, result, calls, prev, rt, sl, tl, ed>>

InitInstall ==
    /\ dirs = InitDirs \cup Prefixes(SysUsr)
    /\ files = InitFiles
    /\ ExportIdle
    /\ rt = RtOff
    /\ sl = Off
    /\ tl = Off
    /\ inst = Off
    /\ ed = Off

NextInstall ==
    \/ \E st \in InstallSettings, icons \in InstallIconLists :
          calls = 0 /\ ExportBegin(st, icons)
    \/ ExportPrepare
    \/ ExportCopy
    \/ ExportDescriptors
    \/ \E install_roots \in InstallRootLists : Install(install_roots)

SpecInstall == InitInstall /\ [][NextInstall]_vars

----------------------------------------------------------------------------
(* C16, C17, C18 *)

Installed == inst.phase = "done"

\* the theme roots of the export that are on disk, in export order
InstPresent == SelectSeq(inst.export_result.theme_roots, LAMBDA tr : tr \in dirs)

\* <install root>/<pack name>
InstDest(root) == root \o <<settings.name>>

\* a copy into the root cannot succeed: it may not be written, or is a file
RootFails(root) == root \in ReadOnlyDirs \/ root \in DOMAIN files

\* the k-th attempt in target-then-root order, k in 1..NumAttempts
NumAttempts == Len(InstPresent) * Len(inst.roots)

AttemptRoot(k) == inst.roots[((k - 1) % Len(inst.roots)) + 1]

AttemptTarget(k) == InstPresent[((k - 1) \div Len(inst.roots)) + 1]

\* C16: no exception leaves install_icon_pack; every attempt into a root that
\* cannot be written is recorded in failures with its path and an error
\* description, and every attempt into any other root is still made and
\* reported in installed.
C16_AttemptsAreIndependent ==
    Installed =>
        /\ inst.err = ""
        /\ \A k \in 1..NumAttempts :
              IF RootFails(AttemptRoot(k))
              THEN \E i \in 1..Len(inst.failures) :
                       /\ inst.failures[i][1] = InstDest(AttemptRoot(k))
                       /\ inst.failures[i][2] # ""
              ELSE /\ \E i \in 1..Len(inst.installed) :
                          inst.installed[i] = InstDest(AttemptRoot(k))
                   /\ InstDest(AttemptRoot(k)) \in dirs
        /\ Cardinality({k \in 1..NumAttempts : RootFails(AttemptRoot(k))})
               = Len(inst.failures)

\* a failing root first, a writable one after it, two targets
C16_Witness ==
    /\ Installed
    /\ inst.roots = <<SysUsr, <<S_icons>>>>
    /\ Len(InstPresent) = 2
    /\ Len(inst.failures) = 2
    /\ inst.installed = <<InstDest(<<S_icons>>), InstDest(<<S_icons>>)>>

\* the part of path p below the directory at
Below(at, p) == SubSeq(p, Len(at) + 1, Len(p))

IsUnder(at, p) == Len(p) > Len(at) /\ SubSeq(p, 1, Len(at)) = at

\* dest holds a copy of the tree at source
HoldsCopyOf(dest, source) ==
    /\ dest \in dirs
    /\ \A d \in dirs : IsUnder(source, d) => dest \o Below(source, d) \in dirs
    /\ \A f \in DOMAIN files :
          IsUnder(source, f) =>
              /\ dest \o Below(source, f) \in DOMAIN files
              /\ files[dest \o Below(source, f)] = files[f]

\* C17: when the export produced a target, every writable root R has
\* R/<pack name> in installed; when all roots are writable failures is empty;
\* every installed path exists and holds a copy of each target's theme tree,
\* with <size>x<size>/apps/<slug>.png carrying the source's bytes for every
\* raster icon that was exported.
C17_WritableRootReceivesTree ==
    (Installed /\ InstPresent # <<>>) =>
        /\ \A i \in 1..Len(inst.roots) :
              ~RootFails(inst.roots[i]) =>
                  InstDest(inst.roots[i]) \in Range(inst.installed)
        /\ (\A i \in 1..Len(inst.roots) : ~RootFails(inst.roots[i]))
               => inst.failures = <<>>
        /\ \A i \in 1..Len(inst.installed) :
              /\ \A t \in 1..Len(InstPresent) :
                    HoldsCopyOf(inst.installed[i], InstPresent[t])
              /\ \A n \in 1..Len(icon_list) :
                    (RasterSource(icon_list[n]) /\ ~OverwrittenLater(n)) =>
                        \A s \in Sizes :
                            LET f == inst.installed[i]
                                       \o <<IntToStr(s) \o <<"x">> \o IntToStr(s), S_apps,
                                            slugify(icon_list[n].name) \o S_png>>
                            IN  f \in DOMAIN files
                                /\ files[f] = files[icon_list[n].source_path]

C17_Witness ==
    /\ Installed
    /\ inst.roots = <<(<<S_icons>>)>>
    /\ inst.failures = <<>>
    /\ inst.installed = <<InstDest(<<S_icons>>)>>
    /\ RasterSource(icon_list[1])
    /\ (InstDest(<<S_icons>>) \o <<(<<"3","2","x","3","2">>), S_apps, <<"f",".","p","n","g">>>>)
           \in DOMAIN files

\* C18: the attempts are exactly the pairs of a target present under the pack
\* root and a given root, in target-then-root order; each ends in exactly one
\* of installed and failures, and both lists keep that order.
C18_EveryPairAttemptedOnceInOrder ==
    Installed =>
        LET ok == SelectSeq([k \in 1..NumAttempts |-> k],
                            LAMBDA k : ~RootFails(AttemptRoot(k)))
            bad == SelectSeq([k \in 1..NumAttempts |-> k],
                             LAMBDA k : RootFails(AttemptRoot(k)))
        IN  /\ Len(inst.installed) + Len(inst.failures) = NumAttempts
            /\ inst.installed = [i \in 1..Len(ok) |-> InstDest(AttemptRoot(ok[i]))]
            /\ [i \in 1..Len(inst.failures) |-> inst.failures[i][1]]
                   = [i \in 1..Len(bad) |-> InstDest(AttemptRoot(bad[i]))]
            /\ \A i \in 1..Len(ok) :
                  HoldsCopyOf(InstDest(AttemptRoot(ok[i])), AttemptTarget(ok[i]))
            /\ Range(inst.installed)
                   \cap {inst.failures[i][1] : i \in 1..Len(inst.failures)} = {}
            /\ \A tr \in Range(inst.export_result.theme_roots) :
                  tr \notin dirs => tr \notin Range(InstPresent)

\* two targets, two different writable roots: four entries, target-major
C18_Witness ==
    /\ Installed
    /\ Len(InstPresent) = 2
    /\ inst.roots = <<(<<S_in>>), <<S_icons>>>>
    /\ inst.installed = <<InstDest(<<S_in>>), InstDest(<<S_icons>>),
                          InstDest(<<S_in>>), InstDest(<<S_icons>>)>>

----------------------------------------------------------------------------
(* C19 *)

\* C19: once export_icon_pack has been entered, no step of it and no step of
\* install_icon_pack changes the caller's PackSettings or the caller's icon
\* list: same elements, same order, same name, source_path and category.
C19_CallerInputsUnchanged ==
    [][ (calls' = calls)
            => /\ settings' = settings
               /\ Len(icon_list') = Len(icon_list)
               /\ \A i \in 1..Len(icon_list) :
                     /\ icon_list'[i].name = icon_list[i].name
                     /\ icon_list'[i].source_path = icon_list[i].source_path
                     /\ icon_list'[i].category = icon_list[i].category ]_vars

\* an export of two icons with artwork, its descriptors step done, installed
C19_Witness ==
    /\ AfterExport
    /\ Installed
    /\ inst.installed # <<>>
    /\ Len(icon_list) = 2
    /\ icon_list[1].source_path = RasterA
    /\ icon_list[2].source_path = RasterB

----------------------------------------------------------------------------
(* repeated exports into one output directory *)

RepeatSettings ==
    {PackSettings(<<"m","y"," ","P">>, S_author, DefaultVersion, <<>>, S_breeze,
                  sz, <<S_out>>, tg) : sz \in {<<32>>, <<16>>}, tg \in {<<>>, <<S_kde>>}}

\* the file an export of an icon named "f" to kde writes into scalable/apps
ExportedScalable ==
    <<S_out, <<"m","y","-","p">>, S_kde, <<"m","y"," ","P">>, S_scalable, S_apps,
      <<"f",".","p","n","g">>>>

RepeatIconLists ==
    { <<IconDefinition(<<"f">>, RasterA, NoneStr)>>,
      <<IconDefinition(<<"f">>, RasterB, NoneStr)>>,
      <<IconDefinition(<<"g">>, VectorB, NoneStr)>>,
      <<IconDefinition(<<"f">>, ExportedScalable, NoneStr)>> }

InitRepeat == Init

NextRepeat ==
    \/ \E st \in RepeatSettings, icons \in RepeatIconLists :
          calls < MaxCalls /\ ExportBegin(st, icons)
    \/ ExportPrepare
    \/ ExportCopy
    \/ ExportDescriptors

SpecRepeat == InitRepeat /\ [][NextRepeat]_vars

----------------------------------------------------------------------------
(* C20 *)

\* a later call has ended; prev is the state in which it was entered
AfterLaterExport == calls >= 2 /\ AfterExport

\* C20: no step of any export removes a directory or a file; a gnome tree on
\* disk when an export with targets ["kde"] is entered is there unchanged when
\* that export ends; an export with the settings and icons of the call before
\* it leaves the directories and every file's content as they were.
C20_RepeatedExportsOnlyAdd ==
    /\ [][dirs \subseteq dirs' /\ DOMAIN files \subseteq DOMAIN files']_vars
    /\ [](AfterLaterExport /\ settings.targets = <<S_kde>> =>
             /\ \A d \in prev.dirs : IsUnder(LayoutPackRoot \o <<S_gnome>>, d) => d \in dirs
             /\ \A f \in DOMAIN prev.files :
                   IsUnder(LayoutPackRoot \o <<S_gnome>>, f) =>
                       f \in DOMAIN files /\ files[f] = prev.files[f])
    /\ [](AfterLaterExport /\ settings = prev.settings /\ icon_list = prev.icon_list =>
             dirs = prev.dirs /\ files = prev.files)

\* an export to both targets, then one to kde only with another size and
\* another icon: the gnome tree of the first is still there
C20_Witness ==
    /\ AfterLaterExport
    /\ prev.settings.targets = <<>>
    /\ settings.targets = <<S_kde>>
    /\ settings.base_sizes # prev.settings.base_sizes
    /\ icon_list # prev.icon_list
    /\ LayoutTargetRoot(S_gnome) \in dirs
    /\ \E f \in DOMAIN files : IsUnder(LayoutTargetRoot(S_gnome), f)

----------------------------------------------------------------------------
(* gui/main_window.py: importing a project from a pack directory *)

\* a < b for Path: component by component
RECURSIVE PathLess(_, _)
PathLess(a, b) ==
    IF b = <<>> THEN FALSE
    ELSE IF a = <<>> THEN TRUE
    ELSE IF a[1] = b[1] THEN PathLess(Tail(a), Tail(b))
    ELSE StrLess(a[1], b[1])

\* sorted(...) of a set of paths
RECURSIVE SortedByPath(_)
SortedByPath(S) ==
    IF S = {} THEN <<>>
    ELSE LET least == CHOOSE p \in S : \A r \in S : r # p => PathLess(p, r)
         IN  <<least>> \o SortedByPath(S \ {least})

\* directory.rglob("*"): everything below the directory
rglob(ds, fl, directory) ==
    {p \in ds \cup DOMAIN fl :
        Len(p) > Len(directory) /\ SubSeq(p, 1, Len(directory)) = directory}

S_mimetypes == <<"m","i","m","e","t","y","p","e","s">>

\* the weight computed for one file
SourceWeight(file_path) ==
    LET suffix == Lower(Suffix(file_path))
        normalized_parts == {Lower(file_path[i]) : i \in 1..Len(file_path)}
    IN  (IF suffix \notin {S_svg, S_svgz} THEN 1 ELSE 0)
        + (IF S_scalable \notin normalized_parts THEN 2 ELSE 0)
        + (IF S_apps \notin normalized_parts /\ S_mimetypes \notin normalized_parts
           THEN 1 ELSE 0)

\* variant: a file of equal weight replaces the winner
KeepsExisting_Strict(winners, name, weight) ==
    name \in DOMAIN winners /\ winners[name][1] < weight

\* `if existing and existing[0] <= weight: continue`
KeepsExisting(winners, name, weight) ==
    name \in DOMAIN winners /\ winners[name][1] <= weight

\* the loop over the sorted paths, from the k-th on; winners: stem ->
\* (weight, path, category)
RECURSIVE SourcesLoop(_, _, _, _, _)
SourcesLoop(fl, directory, paths, k, winners) ==
    IF k > Len(paths) THEN winners
    ELSE LET file_path == paths[k]
             name == Stem(file_path)
             weight == SourceWeight(file_path)
             category == IF Parent(file_path) # directory
                         THEN file_path[Len(file_path) - 1] ELSE NoneStr
         IN  IF ~is_file(fl, <<>>, file_path)
                 \/ Lower(Suffix(file_path)) \notin _ALLOWED_SUFFIXES
                 \/ KeepsExisting(winners, name, weight)
             THEN SourcesLoop(fl, directory, paths, k + 1, winners)
             ELSE SourcesLoop(fl, directory, paths, k + 1,
                      [n \in DOMAIN winners \cup {name} |->
                          IF n = name THEN <<weight, file_path, category>>
                          ELSE winners[n]])

\* sorted(names) of a set of strings
RECURSIVE SortedStrings(_)
SortedStrings(S) ==
    IF S = {} THEN <<>>
    ELSE LET least == CHOOSE a \in S : \A b \in S : b # a => StrLess(a, b)
         IN  <<least>> \o SortedStrings(S \ {least})

_collect_icon_sources(ds, fl, directory) ==
    LET winners == SourcesLoop(fl, directory, SortedByPath(rglob(ds, fl, directory)),
                               1, << >>)
        names == SortedStrings(DOMAIN winners)
    IN  [i \in 1..Len(names) |->
            <<names[i], winners[names[i]][2], winners[names[i]][3]>>]

----------------------------------------------------------------------------
(* pack directories to import *)

ImportDirs == {<<(<<"/">>), <<"p">>>>, <<(<<"/">>), S_apps, <<"p">>>>}

\* icon files a pack may hold, relative to its directory
ImportPool ==
    { <<S_scalable, S_apps, <<"f",".","s","v","g">>>>,
      <<(<<"4","8">>), S_apps, S_f_png>>,
      <<S_scalable, S_f_png>>,
      <<S_Scalable, <<"o","t","h","e","r">>, <<"f",".","S","V","G">>>>,
      <<S_apps, <<"g",".","p","n","g">>>>,
      <<S_mimetypes, <<"g",".","p","n","g">>>>,
      <<(<<"g",".","s","v","g","z">>)>> }

\* always there: a file with another suffix and a directory named like an icon
ImportNoiseFile == <<S_apps, <<"h",".","t","x","t">>>>

ImportNoiseDir == <<S_apps, <<"d",".","p","n","g">>>>

\* _collect_icon_sources(directory)
ImportCollect ==
    /\ ed.phase = "import"
    /\ ed' = [phase |-> "imported", directory |-> ed.directory,
              entries |-> _collect_icon_sources(dirs, files, ed.directory)]
    /\ UNCHANGED <<exportVars, rt, sl, tl, inst>>

InitImport ==
    /\ ExportIdle
    /\ rt = RtOff
    /\ sl = Off
    /\ tl = Off
    /\ inst = Off
    /\ \E directory \in ImportDirs, present \in SUBSET ImportPool :
          /\ files = [p \in {directory \o r : r \in present \cup {ImportNoiseFile}}
                         |-> [bytes |-> 1]]
          /\ dirs = Prefixes(directory \o ImportNoiseDir)
                      \cup UNION {Prefixes(directory \o Parent(r)) : r \in present}
          /\ ed = [phase |-> "import", directory |-> directory]

NextImport == ImportCollect

SpecImport == InitImport /\ [][NextImport]_vars

----------------------------------------------------------------------------
(* C21 *)

\* the files of the pack with an allowed suffix
AllowedSources ==
    {f \in DOMAIN files :
        /\ IsUnder(ed.directory, f)
        /\ Lower(Suffix(f)) \in {S_png, S_svg, S_svg \o <<"z">>}}

\* the names, lower-cased, of the directories the file is located under
DirsAbove(f) == {Lower(f[i]) : i \in 1..(Len(f) - 1)}

\* the weight as stated
StatedWeight(f) ==
    (IF Lower(Suffix(f)) \in {S_svg, S_svgz} THEN 0 ELSE 1)
    + (IF S_scalable \in DirsAbove(f) THEN 0 ELSE 2)
    + (IF S_apps \in DirsAbove(f) \/ S_mimetypes \in DirsAbove(f) THEN 0 ELSE 1)

\* C21: for every stem of an allowed file exactly one entry is returned; its
\* file has that stem and the minimum stated weight among the files sharing
\* the stem, and is first in sorted path order among those of minimum weight.
C21_LowestWeightFirstSortedWins ==
    (ed.phase = "imported") =>
        LET E == ed.entries IN
        /\ \A f \in AllowedSources :
              Cardinality({i \in 1..Len(E) : E[i][1] = Stem(f)}) = 1
        /\ \A i \in 1..Len(E) :
              /\ E[i][2] \in AllowedSources
              /\ Stem(E[i][2]) = E[i][1]
              /\ \A f \in AllowedSources :
                    Stem(f) = E[i][1] /\ f # E[i][2] =>
                        \/ StatedWeight(E[i][2]) < StatedWeight(f)
                        \/ /\ StatedWeight(E[i][2]) = StatedWeight(f)
                           /\ PathLess(E[i][2], f)

\* four files share the stem f and three the stem g, with ties in weight
C21_Witness ==
    /\ ed.phase = "imported"
    /\ Cardinality(AllowedSources) = 7
    /\ Len(ed.entries) = 2
    /\ \E i \in 1..2 : ed.entries[i][2] = ed.directory \o <<S_apps, <<"g",".","p","n","g">>>>

----------------------------------------------------------------------------
(* gui/main_window.py: the working set of icons in the editor *)

S_custom == <<"c","u","s","t","o","m">>

S_Icon == <<"I","c","o","n"," ">>

\* rows are counted from 0 as in the code; -1 means no row is selected
NoRow == 0 - 1

IconAt(icons, row) == icons[row + 1]

\* sub in s
Contains(s, sub) ==
    \E i \in 0..(Len(s) - Len(sub)) : SubSeq(s, i + 1, i + Len(sub)) = sub

\* the rows _refresh_icon_list puts into the tree: every row when the search
\* filter is empty, else the rows whose lower-cased name contains the
\* lower-cased filter
matching_indices(icons, filter) ==
    LET filter_text == Lower(filter)
    IN  {row \in 0..(Len(icons) - 1) :
            filter_text = <<>> \/ Contains(Lower(icons[row + 1].name), filter_text)}

\* _refresh_icon_list(select_index): the row selected afterwards; NoRow as
\* select_index stands for None
RowAfterRefresh(icons, filter, select_index) ==
    LET matching == matching_indices(icons, filter)
    IN  IF icons = <<>> THEN NoRow
        ELSE IF matching = {} THEN NoRow
        ELSE IF select_index \in matching THEN select_index
        ELSE CHOOSE row \in matching : \A other \in matching : row <= other

\* _add_icon: the new working set
AddedIcons(icons) ==
    Append(icons, IconDefinition(S_Icon \o IntToStr(Len(icons) + 1), None, S_custom))

\* self._icons.pop(row)
Popped(icons, row) ==
    [i \in 1..(Len(icons) - 1) |-> IF i <= row THEN icons[i] ELSE icons[i + 1]]

\* _commit_icon_name with `text` in the name field: the new working set
RenamedIcons(icons, row, text) ==
    LET name == Strip(text, Whitespace)
    IN  IF row < 0 THEN icons
        ELSE IF name = <<>> THEN icons
        ELSE IF IconAt(icons, row).name = name THEN icons
        ELSE [icons EXCEPT ![row + 1].name = name]

\* no file dialog is open
EditorIdle == ed.phase = "editor" /\ ed.pending = NoRow

\* _handle_filter_change(text) with a project loaded
FilterChange(text) ==
    /\ EditorIdle
    /\ LET filter == Strip(text, Whitespace)
       IN  ed' = [ed EXCEPT !.filter = filter,
                            !.row = RowAfterRefresh(ed.icons, filter, NoRow)]
    /\ UNCHANGED <<exportVars, rt, sl, tl, inst>>

\* _add_icon
AddIcon ==
    /\ EditorIdle
    /\ Len(ed.icons) < MaxWorking
    /\ ed' = [ed EXCEPT !.icons = AddedIcons(ed.icons),
                        !.row = RowAfterRefresh(AddedIcons(ed.icons), ed.filter,
                                                Len(ed.icons))]
    /\ UNCHANGED <<exportVars, rt, sl, tl, inst>>

\* _remove_icon
RemoveIcon ==
    /\ EditorIdle
    /\ ed.row >= 0
    /\ ed' = [ed EXCEPT !.icons = Popped(ed.icons, ed.row),
                        !.row = RowAfterRefresh(Popped(ed.icons, ed.row), ed.filter,
                                    IF ed.row <= Len(ed.icons) - 2 THEN ed.row
                                    ELSE Len(ed.icons) - 2)]
    /\ UNCHANGED <<exportVars, rt, sl, tl, inst>>

\* _commit_icon_name after `text` was typed into the name field: the list is
\* refreshed only when the name changes
CommitIconName(text) ==
    /\ EditorIdle
    /\ ed.row >= 0
    /\ LET renamed == RenamedIcons(ed.icons, ed.row, text)
       IN  ed' = [ed EXCEPT !.icons = renamed,
                            !.row = IF renamed = ed.icons THEN ed.row
                                    ELSE RowAfterRefresh(renamed, ed.filter, ed.row)]
    /\ UNCHANGED <<exportVars, rt, sl, tl, inst>>

\* _choose_icon_file up to the file dialog: the current row is read and the
\* modal dialog opens
ChooseIconFileBegin ==
    /\ EditorIdle
    /\ ed.row >= 0
    /\ ed' = [ed EXCEPT !.pending = ed.row]
    /\ UNCHANGED <<exportVars, rt, sl, tl, inst>>

\* _choose_icon_file from the answer of the dialog on: an empty answer
\* changes nothing, any other becomes the source_path of the icon of the row
\* read before the dialog, and the list is refreshed for that row
ChooseIconFileEnd(path_str) ==
    /\ ed.phase = "editor"
    /\ ed.pending # NoRow
    /\ IF path_str = <<>>
       THEN ed' = [ed EXCEPT !.pending = NoRow]
       ELSE LET chosen == [ed.icons EXCEPT ![ed.pending + 1].source_path = PathOf(path_str)]
            IN  ed' = [ed EXCEPT !.pending = NoRow,
                                 !.icons = chosen,
                                 !.row = RowAfterRefresh(chosen, ed.filter, ed.pending)]
    /\ UNCHANGED <<exportVars, rt, sl, tl, inst>>

\* the user selects another row of the tree; only the rows the filter lets
\* through are in the tree
SelectRow(row) ==
    /\ EditorIdle
    /\ row \in matching_indices(ed.icons, ed.filter)
    /\ row # ed.row
    /\ ed' = [ed EXCEPT !.row = row]
    /\ UNCHANGED <<exportVars, rt, sl, tl, inst>>

\* _handle_tree_selection for an item that carries no row: the user makes
\* the row of a category the current item, and no icon is selected
SelectHeader ==
    /\ EditorIdle
    /\ matching_indices(ed.icons, ed.filter) # {}
    /\ ed.row # NoRow
    /\ ed' = [ed EXCEPT !.row = NoRow]
    /\ UNCHANGED <<exportVars, rt, sl, tl, inst>>

S_folder == <<"f","o","l","d","e","r">>

\* the text typed into the name field
NameTexts ==
    {<<>>, <<" ","x"," ">>, <<"U+3000">>, S_folder \o <<"\t">>, S_Icon \o <<"1">>,
     <<"U+00C4">>}

\* the text typed into the search box
FilterTexts == {<<>>, <<"i","c","o","n">>, <<" ","F","O"," ">>, <<"U+00E4">>}

\* the answers of the file dialog: cancelled, or a file
ChosenFiles == {<<>>, PathStr(RasterB)}

\* a project just opened: no icons, or one icon taken from a theme; the
\* search filter is empty
InitEditor ==
    /\ dirs = InitDirs
    /\ files = InitFiles
    /\ ExportIdle
    /\ rt = RtOff
    /\ sl = Off
    /\ tl = Off
    /\ inst = Off
    /\ \E icons \in {<<>>, <<IconDefinition(S_folder, RasterA, S_apps)>>} :
          ed = [phase |-> "editor", icons |-> icons, filter |-> <<>>, pending |-> NoRow,
                row |-> RowAfterRefresh(icons, <<>>, NoRow)]

NextEditor ==
    \/ AddIcon
    \/ RemoveIcon
    \/ \E text \in NameTexts : CommitIconName(text)
    \/ \E text \in FilterTexts : FilterChange(text)
    \/ ChooseIconFileBegin
    \/ \E path_str \in ChosenFiles : ChooseIconFileEnd(path_str)
    \/ \E row \in 0..(MaxWorking - 1) : SelectRow(row)
    \/ SelectHeader

SpecEditor == InitEditor /\ [][NextEditor]_vars

----------------------------------------------------------------------------
(* C22 *)

\* C22: no two icons of the working set have the same name.
C22_IconNamesUnique ==
    (ed.phase = "editor") =>
        \A i, j \in 1..Len(ed.icons) : i # j => ed.icons[i].name # ed.icons[j].name

----------------------------------------------------------------------------
(* gui/main_window.py: MetadataDialog *)

\* the loop over text.split(","): the sizes that are kept
RECURSIVE KeptSizes(_)
KeptSizes(chunks) ==
    IF chunks = <<>> THEN <<>>
    ELSE LET chunk == Strip(Head(chunks), Whitespace)
             parsed == ParseInt(chunk)
         IN  IF chunk # <<>> /\ parsed.ok /\ parsed.value > 0
             THEN <<parsed.value>> \o KeptSizes(Tail(chunks))
             ELSE KeptSizes(Tail(chunks))

\* sorted(...) of a set of integers
RECURSIVE SortedInts(_)
SortedInts(S) ==
    IF S = {} THEN <<>>
    ELSE LET least == CHOOSE a \in S : \A b \in S : a <= b
         IN  <<least>> \o SortedInts(S \ {least})

\* variant: the sizes are kept as typed
AcceptedSizes_AsTyped(sizes) == sizes

\* base_sizes=sorted(set(sizes))
AcceptedSizes(sizes) == SortedInts(Range(sizes))

\* _handle_accept on the fields of the form: whether the dialog is accepted,
\* and its result
_handle_accept(form) ==
    LET name == Strip(form.name, Whitespace)
        author == Strip(form.author, Whitespace)
        sizes == KeptSizes(Split(form.sizes, ","))
        tgts == (IF form.gtk THEN <<S_gnome>> ELSE <<>>)
                    \o (IF form.qt THEN <<S_kde>> ELSE <<>>)
        output == Strip(form.output_dir, Whitespace)
    IN  IF name = <<>> \/ author = <<>> \/ sizes = <<>> \/ tgts = <<>>
        THEN [accepted |-> FALSE]
        ELSE [accepted |-> TRUE,
              result |-> PackSettings(name, author, DefaultVersion,
                             Strip(form.description, Whitespace), form.inherits,
                             AcceptedSizes(sizes),
                             PathOf(IF output # <<>> THEN output ELSE S_build), tgts)]

----------------------------------------------------------------------------
(* where the settings of a project come from *)

SizesAlphabet == {"1", "2", "0", "-", "_", ",", " ", "U+0663"}

SizesTexts == UNION {[1..n -> SizesAlphabet] : n \in 0..MaxSizesText}

\* base_sizes lists a descriptor may hold
DescriptorSizes == UNION {[1..n -> {0 - 1, 0, 16, 32}] : n \in 0..2}

\* base_sizes lists whose entries the document holds as text
DescriptorSizeTexts ==
    {<<(<<"1","6">>)>>, <<(<<"3","2">>), <<" ","1","_","6">>>>, <<(<<"1","6">>), <<"x">>>>}

DescriptorPath == <<S_in, S_descriptor>>

\* a descriptor without icons; has_sizes: whether the key base_sizes is there
DescriptorDoc(sizes, has_sizes) ==
    IF has_sizes
    THEN [name |-> <<"m","y"," ","P">>, author |-> S_author, base_sizes |-> sizes]
    ELSE [name |-> <<"m","y"," ","P">>, author |-> S_author]

\* settings, icons = load_project(path)
SettingsFromDescriptor ==
    /\ ed.phase = "descriptor"
    /\ LET r == load_project(dirs, files, DescriptorPath)
       IN  ed' = IF r.err = ""
                 THEN [phase |-> "settings", origin |-> "load_project", settings |-> r.settings]
                 ELSE [phase |-> "failed", origin |-> "load_project"]
    /\ UNCHANGED <<exportVars, rt, sl, tl, inst>>

\* the user presses OK in the metadata dialog
SettingsFromDialog ==
    /\ ed.phase = "dialog"
    /\ LET r == _handle_accept(ed.form)
       IN  ed' = IF r.accepted
                 THEN [phase |-> "settings", origin |-> "dialog", settings |-> r.result]
                 ELSE [phase |-> "failed", origin |-> "dialog"]
    /\ UNCHANGED <<exportVars, rt, sl, tl, inst>>

InitSettings ==
    /\ dirs = InitDirs
    /\ ExportIdle
    /\ rt = RtOff
    /\ sl = Off
    /\ tl = Off
    /\ inst = Off
    /\ \/ /\ \E sizes \in DescriptorSizes, has_sizes \in BOOLEAN :
                /\ has_sizes \/ sizes = <<>>
                /\ files = (DescriptorPath :> [yaml |-> DescriptorDoc(sizes, has_sizes)])
                              @@ InitFiles
          /\ ed = [phase |-> "descriptor"]
       \/ /\ \E sizes \in DescriptorSizeTexts :
                files = (DescriptorPath :> [yaml |-> DescriptorDoc(sizes, TRUE)]) @@ InitFiles
          /\ ed = [phase |-> "descriptor"]
       \/ /\ files = InitFiles
          /\ \E text \in SizesTexts, name \in {<<>>, <<"m","y"," ","P">>} :
                ed = [phase |-> "dialog",
                      form |-> [name |-> name, author |-> S_author, description |-> <<>>,
                                inherits |-> S_breeze, sizes |-> text,
                                output_dir |-> <<>>, gtk |-> TRUE, qt |-> FALSE]]

NextSettings ==
    \/ SettingsFromDescriptor
    \/ SettingsFromDialog

SpecSettings == InitSettings /\ [][NextSettings]_vars

----------------------------------------------------------------------------
(* C23 *)

\* non-empty, positive, ascending without duplicates
WellFormedSizes(sz) ==
    /\ sz # <<>>
    /\ \A i \in 1..Len(sz) : sz[i] > 0
    /\ \A i \in 1..(Len(sz) - 1) : sz[i] < sz[i + 1]

\* C23 as stated: the base_sizes of every PackSettings built by load_project
\* or by the metadata dialog is non-empty, positive, without duplicates and
\* ascending.
C23_BaseSizesWellFormed ==
    (ed.phase = "settings") => WellFormedSizes(ed.settings.base_sizes)

\* what holds: the base_sizes of settings built by the metadata dialog are
\* well formed
C23_DialogSizesWellFormed ==
    (ed.phase = "settings" /\ ed.origin = "dialog") =>
        WellFormedSizes(ed.settings.base_sizes)

----------------------------------------------------------------------------
(* gui/main_window.py: the recent projects *)

\* `updated[:10]`
RecentLimit == 10

\* variant: the entries equal to the new one are kept
_record_recent_project_NoFilter(recent, ds, path) ==
    LET target == IF IsDirectory(ds, path) THEN path ELSE Parent(path)
        updated == <<PathStr(target)>> \o recent
    IN  SubSeq(updated, 1, IF Len(updated) < RecentLimit THEN Len(updated) ELSE RecentLimit)

\* _record_recent_project(path): the list after it; path strings
_record_recent_project(recent, ds, path) ==
    LET target == IF IsDirectory(ds, path) THEN path ELSE Parent(path)
        path_str == PathStr(target)
        updated == <<path_str>> \o SelectSeq(recent, LAMBDA existing : existing # path_str)
    IN  SubSeq(updated, 1, IF Len(updated) < RecentLimit THEN Len(updated) ELSE RecentLimit)

\* _remove_recent_entry(path_str)
_remove_recent_entry(recent, path_str) ==
    SelectSeq(recent, LAMBDA entry : entry # path_str)

\* _clear_recent_projects()
_clear_recent_projects(recent) == <<>>

----------------------------------------------------------------------------
(* gui/main_window.py: the window, its project, the metadata panel and the
   handlers that create, open, export or install a project *)

\* `None` where a record is expected
NoneRecord == [none |-> TRUE]

DefaultDescription ==
    <<"C","u","s","t","o","m"," ","i","c","o","n"," ","t","h","e","m","e"," ","g","e","n","e","r","a","t","e","d"," ","w","i","t","h"," ","S","t","r","o","m","s","c","h","l","a","g">>

\* PackSettings(name="Untitled Icon Pack", author="Unknown", ...)
UntitledSettings(inherits, tgts) ==
    PackSettings(S_Untitled, S_Unknown, DefaultVersion, DefaultDescription, inherits,
                 DefaultBaseSizes, PathOf(S_build), tgts)

\* the fields of the window that hold the project
WindowFields ==
    {"settings", "icons", "metadata_confirmed", "project_loaded",
     "last_export_result", "recent_projects"}

\* the texts of the four line edits of the metadata panel
NoPanel == [name |-> <<>>, author |-> <<>>, inherits |-> <<>>, targets |-> <<>>]

\* sep.join(parts) for a separator of several characters
RECURSIVE JoinText(_, _)
JoinText(parts, sep) ==
    IF parts = <<>> THEN <<>>
    ELSE IF Len(parts) = 1 THEN parts[1]
    ELSE parts[1] \o sep \o JoinText(Tail(parts), sep)

\* _update_metadata_panel(): setText does not emit editingFinished
_update_metadata_panel(w) ==
    [w EXCEPT !.panel =
        IF ~w.project_loaded \/ w.settings = NoneRecord THEN NoPanel
        ELSE [name |-> w.settings.name, author |-> w.settings.author,
              inherits |-> w.settings.inherits,
              targets |-> IF w.settings.targets # <<>>
                          THEN JoinText(w.settings.targets, <<",", " ">>)
                          ELSE <<>>]]

\* _show_placeholder()
_show_placeholder(w) ==
    _update_metadata_panel([w EXCEPT !.project_loaded = FALSE,
                                     !.last_export_result = NoneRecord])

\* _show_project_view()
_show_project_view(w) == _update_metadata_panel([w EXCEPT !.project_loaded = TRUE])

\* _handle_metadata_field_commit(): the slot of editingFinished of the four
\* line edits of the panel
_handle_metadata_field_commit(w) ==
    IF ~w.project_loaded \/ w.settings = NoneRecord THEN w
    ELSE LET name == Strip(w.panel.name, Whitespace)
             author == Strip(w.panel.author, Whitespace)
             inherits == Strip(w.panel.inherits, Whitespace)
             raw_targets == [i \in 1..Len(w.panel.targets) |->
                                IF w.panel.targets[i] = ";" THEN "," ELSE w.panel.targets[i]]
             parts == Split(raw_targets, ",")
             stripped == [i \in 1..Len(parts) |-> Strip(parts[i], Whitespace)]
             tgts == SelectSeq(stripped, LAMBDA part : part # <<>>)
         IN  _update_metadata_panel(
                 [w EXCEPT !.settings.name = IF name # <<>> THEN name ELSE S_Untitled,
                           !.settings.author = IF author # <<>> THEN author ELSE S_Unknown,
                           !.settings.inherits =
                               IF inherits # <<>> THEN inherits ELSE S_hicolor,
                           !.settings.targets =
                               IF tgts # <<>> THEN tgts ELSE <<S_gnome, S_kde>>,
                           !.metadata_confirmed = TRUE])

\* _load_recent_projects(): stored is the value QSettings holds under
\* "recentProjects": a str, a list, or something else
_load_recent_projects(stored) ==
    LET entries == IF stored.kind = "str" THEN <<stored.value>>
                   ELSE IF stored.kind = "list"
                   THEN [i \in 1..Len(stored.value) |-> str(stored.value[i])]
                   ELSE <<>>
        kept == SelectSeq(entries, LAMBDA entry : entry # <<>>)
    IN  SubSeq(kept, 1, IF Len(kept) < RecentLimit THEN Len(kept) ELSE RecentLimit)

\* the window after __init__
FreshWindow(stored) ==
    _show_placeholder(
        [phase |-> "window", modal |-> "", outcome |-> "", pending |-> None,
         action |-> "", entered |-> 0,
         settings |-> NoneRecord, icons |-> <<>>, metadata_confirmed |-> FALSE,
         project_loaded |-> FALSE, last_export_result |-> NoneRecord,
         recent_projects |-> _load_recent_projects(stored), panel |-> NoPanel])

\* the message boxes of the handlers, by title
MissingProjectBox == "Missing project"
LoadFailureBox == "Unable to open project"
NoIconsBox == "No icons found"
BaseRequiredBox == "Base required"
AddIconsBox == "Add icons"
ExportFailedBox == "Export failed"
ExportCompleteBox == "Export complete"
InstallLocalBox == "Install for current user"
InstallSystemBox == "Install system-wide"

MessageBoxes ==
    {MissingProjectBox, LoadFailureBox, NoIconsBox, BaseRequiredBox, AddIconsBox,
     ExportFailedBox, ExportCompleteBox, InstallLocalBox, InstallSystemBox}

\* the dialogs that ask for an answer, by title
BaseThemeDialog == "Choose base icon theme"
ProjectFolderDialog == "Select project folder"
MetadataDialog == "Project metadata"
ExportDirectoryDialog == "Choose export directory"

\* QMessageBox opens; `about` is the path or the exception it reports
ShowMessage(w, box, text, about) ==
    [w EXCEPT !.modal = box, !.outcome = text, !.pending = about]

\* the window shows the project: the part the handlers that open or import a
\* project share; `recorded` is the path handed to _record_recent_project
ProjectShown(w, ds, st, icons, confirmed, recorded) ==
    [_show_project_view(
         [w EXCEPT !.settings = st, !.metadata_confirmed = confirmed,
                   !.icons = icons, !.last_export_result = NoneRecord])
     EXCEPT !.recent_projects = _record_recent_project(w.recent_projects, ds, recorded)]

\* variant: the project view is shown before the descriptor is read
LoadedOrBox_ShowFirst(w, ds, path, r) ==
    IF r.err # ""
    THEN ShowMessage(_show_project_view([w EXCEPT !.icons = <<>>]),
                     LoadFailureBox, r.err, path)
    ELSE ProjectShown(w, ds, r.settings, r.icons, TRUE, Parent(path))

\* the try block of _load_project_file and what follows it; r is what
\* load_project(path) gave
LoadedOrBox(w, ds, path, r) ==
    IF r.err # "" THEN ShowMessage(w, LoadFailureBox, r.err, path)
    ELSE ProjectShown(w, ds, r.settings, r.icons, TRUE, Parent(path))

\* _load_project_file(path): the window after it, or with the box that
\* reports the exception of load_project
_load_project_file(w, ds, fl, path) == LoadedOrBox(w, ds, path, load_project(ds, fl, path))

S_Stromschlag_yaml == <<"S">> \o Tail(S_descriptor)

\* _discover_descriptor(directory): the descriptors it may return; the glob
\* yields its matches in the order of the operating system, and the first one
\* is taken
_discover_descriptor(ds, fl, directory) ==
    LET preferred == directory \o <<S_descriptor>>
        alt == directory \o <<S_Stromschlag_yaml>>
        matches == {p \in rglob(ds, fl, directory) : p[Len(p)] = S_descriptor}
    IN  IF Exists(ds, fl, preferred) THEN {preferred}
        ELSE IF Exists(ds, fl, alt) THEN {alt}
        ELSE IF matches # {} THEN matches
        ELSE {None}

S_Imported == <<"I","m","p","o","r","t","e","d">>

\* the project _build_project_from_directory makes of the entries
\* _collect_icon_sources found
BuiltProject(directory, entries) ==
    [settings |->
         PackSettings(IF Name(directory) # <<>> THEN Name(directory)
                      ELSE S_Imported \o <<" ","I","c","o","n"," ","P","a","c","k">>,
                      S_Imported, DefaultVersion, DefaultDescription, S_hicolor,
                      DefaultBaseSizes, Parent(directory), DefaultTargets),
     icons |-> [i \in 1..Len(entries) |->
                   IconDefinition(entries[i][1], entries[i][2], entries[i][3])]]

\* _build_project_from_directory(directory)
_build_project_from_directory(ds, fl, directory) ==
    BuiltProject(directory, _collect_icon_sources(ds, fl, directory))

\* _load_project_from_directory(directory) when no descriptor was found;
\* built is what _build_project_from_directory gave
ImportedOrBox(w, ds, directory, built) ==
    IF built.icons = <<>> THEN ShowMessage(w, NoIconsBox, "", directory)
    ELSE ProjectShown(w, ds, built.settings, built.icons, FALSE, directory)

\* _load_project_from_directory(directory); descriptor is what
\* _discover_descriptor returned
_load_project_from_directory(w, ds, fl, directory, descriptor) ==
    IF descriptor # None THEN _load_project_file(w, ds, fl, descriptor)
    ELSE ImportedOrBox(w, ds, directory, _build_project_from_directory(ds, fl, directory))

\* _load_project_from_path(path)
_load_project_from_path(w, ds, fl, path, descriptor) ==
    IF ~Exists(ds, fl, path) THEN ShowMessage(w, MissingProjectBox, "", path)
    ELSE IF IsDirectory(ds, path)
    THEN _load_project_from_directory(w, ds, fl, path, descriptor)
    ELSE _load_project_file(w, ds, fl, path)

\* _open_recent_project(path) for the entry `entry` of the list
_open_recent_project(w, ds, fl, entry, descriptor) ==
    IF entry = <<>> THEN w
    ELSE IF ~Exists(ds, fl, PathOf(entry))
    THEN ShowMessage(w, MissingProjectBox, "", PathOf(entry))
    ELSE _load_project_from_path(w, ds, fl, PathOf(entry), descriptor)

\* the descriptors _discover_descriptor may return when the path is loaded
Descriptors(ds, fl, path) ==
    IF IsDirectory(ds, path) THEN _discover_descriptor(ds, fl, path) ELSE {None}

\* load_icons_from_directory(directory)
load_icons_from_directory(ds, fl, listing, suffixes, directory) ==
    _build_icon_definitions(
        _collect_icon_entries(ds, fl, <<>>, listing, suffixes, directory, NoLimit))

\* _ensure_metadata() down to its first test: settings that are None are
\* replaced by PackSettings(name="Untitled Icon Pack", author="Unknown")
DefaultedSettings(w) ==
    IF w.settings = NoneRecord
    THEN [w EXCEPT !.settings = UntitledSettings(S_breeze, DefaultTargets)]
    ELSE w

\* `self._metadata_confirmed and self._settings.name and self._settings.author`
MetadataReady(w) ==
    w.metadata_confirmed /\ w.settings.name # <<>> /\ w.settings.author # <<>>

\* _perform_export reaches `export_icon_pack(self._settings, self._icons)`;
\* made is the number of calls made so far
ExportCalled(w, made) ==
    [w EXCEPT !.phase = "exporting", !.modal = "", !.entered = made]

\* _perform_export once _ensure_metadata has returned True, down to the box
\* "Add icons", to the folder dialog of _prompt_export_directory, or to the
\* call of export_icon_pack
AfterMetadata(w, made) ==
    IF w.icons = <<>> THEN ShowMessage(w, AddIconsBox, "", None)
    ELSE IF w.action = "export" THEN [w EXCEPT !.modal = ExportDirectoryDialog]
    ELSE ExportCalled(w, made)

\* _ensure_metadata() after the default, down to MetadataDialog.prompt
MetadataOrOn(w, made) ==
    IF MetadataReady(w) THEN AfterMetadata(w, made)
    ELSE [w EXCEPT !.modal = MetadataDialog]

\* _export_pack() and _install_pack() down to the first dialog or box of
\* _perform_export or to the call of export_icon_pack; action tells the
\* handler
_perform_export(w, action, made) ==
    IF ~w.project_loaded THEN w
    ELSE MetadataOrOn(DefaultedSettings([w EXCEPT !.action = action, !.outcome = ""]),
                      made)

\* the rest of _edit_metadata() (no export or install is under way) or of
\* _ensure_metadata() and what _perform_export does next, MetadataDialog.prompt
\* having returned `updated`; only _edit_metadata refreshes the panel
MetadataReturned(w, updated, made) ==
    IF w.action = ""
    THEN IF updated # NoneRecord
         THEN _update_metadata_panel(
                  [w EXCEPT !.modal = "", !.settings = updated,
                            !.metadata_confirmed = TRUE])
         ELSE [w EXCEPT !.modal = ""]
    ELSE IF updated # NoneRecord
         THEN AfterMetadata([w EXCEPT !.modal = "", !.settings = updated,
                                      !.metadata_confirmed = TRUE], made)
         ELSE [w EXCEPT !.modal = "", !.action = ""]

\* the install roots of _install_pack_local and _install_pack_system
InstallRoots(action) ==
    IF action = "install local"
    THEN <<HomeDir \o <<<<".","l","o","c","a","l">>, <<"s","h","a","r","e">>, S_icons>>,
           HomeDir \o <<<<".","i","c","o","n","s">>>>>>
    ELSE <<<<(<<"/">>), <<"u","s","r">>, <<"s","h","a","r","e">>, S_icons>>,
           <<(<<"/">>), <<"u","s","r">>, <<"l","o","c","a","l">>, <<"s","h","a","r","e">>, S_icons>>>>

\* _perform_export after export_icon_pack has raised `error`
ExportRaised(w, error, icons) ==
    ShowMessage([w EXCEPT !.phase = "window", !.icons = icons], ExportFailedBox, error, None)

\* _perform_export after export_icon_pack has returned, and the rest of
\* _export_pack or _install_pack down to its closing box
ExportReturned(w, ds, export_result, icons) ==
    ShowMessage([w EXCEPT !.phase = "window", !.icons = icons,
                          !.recent_projects =
                              _record_recent_project(w.recent_projects, ds,
                                                     export_result.pack_root),
                          !.last_export_result = export_result],
                IF w.action = "export" THEN ExportCompleteBox
                ELSE IF w.action = "install local" THEN InstallLocalBox
                ELSE InstallSystemBox,
                "", export_result.pack_root)

\* a handler can start: no dialog or box is open, and the window is followed
\* until the last of its MaxExports exports has been made
Idle == ed.phase = "window" /\ ed.modal = "" /\ calls < MaxExports

\* descriptors on disk: one that loads, with its sizes held as text and a
\* target held as a number, one with an icon, one whose
\* icon has its artwork in the home of a user that does not exist, one that
\* is a directory, and one whose document is a plain word
ProjectGood == <<S_in, <<"a">>, S_descriptor>>
ProjectIcons == <<S_in, <<"c">>, S_descriptor>>
ProjectNoHome == <<S_in, <<"d">>, S_descriptor>>
ProjectDirectory == <<S_in, <<"e">>, S_descriptor>>
ProjectWord == <<S_in, <<"t">>, S_descriptor>>

\* a folder with artwork and no descriptor, an empty folder, and a folder
\* that is not there
ImportedFolder == <<S_in, <<"g">>>>
ImportedIcon == ImportedFolder \o <<S_apps, <<"g",".","p","n","g">>>>
EmptyFolder == <<S_in, <<"n">>>>
ProjectGone == <<S_in, <<"g","o","n","e">>>>

WindowFiles ==
    (ProjectGood :> [yaml |-> [name |-> <<"m","y"," ","P">>, author |-> S_author,
                               base_sizes |-> <<(<<"U+0663","2">>)>>, targets |-> <<S_kde, 1>>,
                               output_dir |-> S_out]])
    @@ (ProjectIcons :> [yaml |-> [name |-> <<"m","y"," ","P">>, author |-> S_author,
                                   icons |-> <<[name |-> <<"f">>]>>]])
    @@ (ProjectNoHome :>
            [yaml |-> [name |-> <<"m","y"," ","P">>, author |-> S_author,
                       icons |-> <<[name |-> <<"f">>,
                                    source_path |-> <<"~","n","/","x",".","p","n","g">>]>>]])
    @@ (ProjectWord :> [scalar |-> <<"h","i">>])
    @@ (ImportedIcon :> [bytes |-> 5])
    @@ InitFiles

WindowDirs ==
    {<<S_in>>, <<S_in, <<"a">>>>, <<S_in, <<"c">>>>,
     <<S_in, <<"d">>>>, <<S_in, <<"e">>>>, ProjectDirectory, <<S_in, <<"t">>>>,
     ImportedFolder, Parent(ImportedIcon), EmptyFolder}

\* the icon files of the disk in the order the operating system lists them
WindowListing == <<BreezeIcon, ImportedIcon>>

WindowSuffixes == <<S_png, S_svg, S_svgz>>

\* what QSettings holds under "recentProjects" when the window is built
StoredRecents ==
    {[kind |-> "other"],
     [kind |-> "str", value |-> PathStr(ProjectGone)],
     [kind |-> "list",
      value |-> <<PathStr(RasterA), <<>>, 7, PathStr(ProjectGone) \o <<"/">>>>]}

\* what the folder dialog returns: "" when it is cancelled
FolderAnswers ==
    {<<>>} \cup {PathStr(p) : p \in {<<S_in>>, Parent(ProjectGood), Parent(ProjectIcons),
                                      Parent(ProjectNoHome),
                                      Parent(ProjectDirectory), Parent(ProjectWord),
                                      ImportedFolder, EmptyFolder, ProjectGone}}

\* what the folder dialog of _prompt_export_directory returns: "" when it is
\* cancelled
S_exp == <<"e","x","p">>

ExportDirectoryAnswers == {<<>>, S_exp}

\* what MetadataDialog.prompt returns: None, or the result of an accepted form
DialogAnswers ==
    {NoneRecord,
     _handle_accept([name |-> <<"Q">>, author |-> S_author, description |-> <<>>,
                     inherits |-> S_breeze, sizes |-> <<"1","6">>,
                     output_dir |-> S_out, gtk |-> FALSE, qt |-> TRUE]).result}

\* texts typed into a line edit of the metadata panel
PanelEdits ==
    {[field |-> "name", text |-> <<" ">>],
     [field |-> "targets", text |-> <<"k","d","e",";"," ","x",","," ">>]}

\* _new_project() after load_icon_blueprint gave `suggestion`
DialogOrRaised(w, suggestion) ==
    IF suggestion.err # "ok" THEN [w EXCEPT !.outcome = suggestion.err]
    ELSE [w EXCEPT !.modal = BaseThemeDialog, !.outcome = ""]

\* BaseThemeDialog._handle_accept, and the rest of _new_project when the
\* dialog is accepted; built is what load_icons_from_directory(path) gave;
\* the inherits field of the dialog is left empty
AcceptedOrRefused(w, path, tgts, built) ==
    IF path = None THEN [w EXCEPT !.outcome = "Select a theme"]
    ELSE IF tgts = <<>> THEN [w EXCEPT !.outcome = "Pick targets"]
    ELSE IF built.err # "ok" THEN [w EXCEPT !.outcome = "Unable to load theme"]
    ELSE IF built.icons = <<>> THEN [w EXCEPT !.outcome = NoIconsBox]
    ELSE _show_project_view(
             [w EXCEPT !.modal = "", !.outcome = "",
                       !.settings = UntitledSettings(IF Name(path) # <<>> THEN Name(path)
                                                     ELSE S_breeze, tgts),
                       !.metadata_confirmed = FALSE,
                       !.icons = built.icons,
                       !.last_export_result = NoneRecord])

\* _new_project() up to the base theme dialog; an exception of
\* load_icon_blueprint leaves the handler
NewProject ==
    /\ Idle
    /\ ed' = DialogOrRaised(ed, load_icon_blueprint(dirs, files, <<>>, WindowListing,
                                                     WindowSuffixes, <<>>, NoLimit, <<>>))
    /\ UNCHANGED <<exportVars, rt, sl, tl, inst>>

\* BaseThemeDialog._handle_accept with `path` selected and the two target
\* boxes as given, and, when the dialog is accepted, the rest of
\* _new_project; a refusal shows a warning and leaves the dialog open
BaseThemeAccept(path, gtk, qt) ==
    /\ ed.phase = "window"
    /\ ed.modal = BaseThemeDialog
    /\ ed' = AcceptedOrRefused(ed, path,
                 (IF gtk THEN <<S_gnome>> ELSE <<>>) \o (IF qt THEN <<S_kde>> ELSE <<>>),
                 load_icons_from_directory(dirs, files, WindowListing, WindowSuffixes,
                                           path))
    /\ UNCHANGED <<exportVars, rt, sl, tl, inst>>

\* the base theme dialog is rejected: _new_project reports that a base theme
\* is required
BaseThemeReject ==
    /\ ed.phase = "window"
    /\ ed.modal = BaseThemeDialog
    /\ ed' = ShowMessage(ed, BaseRequiredBox, "", None)
    /\ UNCHANGED <<exportVars, rt, sl, tl, inst>>

\* _open_project_folder() up to the folder dialog
OpenProjectFolder ==
    /\ Idle
    /\ ed' = [ed EXCEPT !.modal = ProjectFolderDialog, !.outcome = ""]
    /\ UNCHANGED <<exportVars, rt, sl, tl, inst>>

\* the rest of _open_project_folder(), the dialog having returned path_str
ProjectFolderChosen(path_str) ==
    /\ ed.phase = "window"
    /\ ed.modal = ProjectFolderDialog
    /\ LET w == [ed EXCEPT !.modal = ""]
       IN  IF path_str = <<>> THEN ed' = w
           ELSE \E descriptor \in Descriptors(dirs, files, PathOf(path_str)) :
                   ed' = _load_project_from_path(w, dirs, files, PathOf(path_str),
                                                 descriptor)
    /\ UNCHANGED <<exportVars, rt, sl, tl, inst>>

\* _open_recent_project(path) from the k-th entry of the recent list
OpenRecentProject(k) ==
    /\ Idle
    /\ k \in 1..Len(ed.recent_projects)
    /\ \E descriptor \in Descriptors(dirs, files, PathOf(ed.recent_projects[k])) :
          ed' = _open_recent_project([ed EXCEPT !.outcome = ""], dirs, files,
                                     ed.recent_projects[k], descriptor)
    /\ UNCHANGED <<exportVars, rt, sl, tl, inst>>

\* a message box is closed and its handler finishes: after "Missing project"
\* the path is taken from the recent list
DismissMessage ==
    /\ ed.phase = "window"
    /\ ed.modal \in MessageBoxes
    /\ ed' = [ed EXCEPT !.modal = "", !.outcome = "", !.pending = None,
                        !.action = "",
                        !.recent_projects =
                            IF ed.modal = MissingProjectBox
                            THEN _remove_recent_entry(ed.recent_projects,
                                                      PathStr(ed.pending))
                            ELSE ed.recent_projects]
    /\ UNCHANGED <<exportVars, rt, sl, tl, inst>>

\* text is typed into a line edit of the metadata panel
PanelType(edit) ==
    /\ Idle
    /\ ed.project_loaded
    /\ ed' = [ed EXCEPT !.panel[edit.field] = edit.text]
    /\ UNCHANGED <<exportVars, rt, sl, tl, inst>>

\* editingFinished: Return is pressed in a line edit of the panel, or the
\* line edit loses the focus, which also happens when a dialog or a message
\* box opens
PanelCommit ==
    /\ ed.phase = "window"
    /\ ed' = _handle_metadata_field_commit(ed)
    /\ UNCHANGED <<exportVars, rt, sl, tl, inst>>

\* _add_icon() in the window
WindowAddIcon ==
    /\ Idle
    /\ ed.project_loaded
    /\ Len(ed.icons) < MaxIcons
    /\ ed' = [ed EXCEPT !.outcome = "", !.icons = AddedIcons(ed.icons)]
    /\ UNCHANGED <<exportVars, rt, sl, tl, inst>>

\* _edit_metadata() up to the metadata dialog
EditMetadata ==
    /\ Idle
    /\ ed' = IF ~ed.project_loaded THEN ed
             ELSE [ed EXCEPT !.modal = MetadataDialog, !.outcome = ""]
    /\ UNCHANGED <<exportVars, rt, sl, tl, inst>>

\* MetadataDialog.prompt returns `updated` to _edit_metadata() or to
\* _ensure_metadata(), and the handler goes on
MetadataAnswered(updated) ==
    /\ ed.phase = "window"
    /\ ed.modal = MetadataDialog
    /\ ed' = MetadataReturned(ed, updated, calls)
    /\ UNCHANGED <<exportVars, rt, sl, tl, inst>>

\* _export_pack() down to the first dialog or box of _perform_export
ExportPack ==
    /\ Idle
    /\ ed' = _perform_export(ed, "export", calls)
    /\ UNCHANGED <<exportVars, rt, sl, tl, inst>>

\* _install_pack_local() down to the first dialog or box of _perform_export
\* or to the call of export_icon_pack
InstallPackLocal ==
    /\ Idle
    /\ ed' = _perform_export(ed, "install local", calls)
    /\ UNCHANGED <<exportVars, rt, sl, tl, inst>>

\* _install_pack_system(), likewise
InstallPackSystem ==
    /\ Idle
    /\ ed' = _perform_export(ed, "install system", calls)
    /\ UNCHANGED <<exportVars, rt, sl, tl, inst>>

\* _prompt_export_directory() returns, the folder dialog having given
\* `directory`, and _perform_export goes on to the call of export_icon_pack
ExportDirectoryChosen(directory) ==
    /\ ed.phase = "window"
    /\ ed.modal = ExportDirectoryDialog
    /\ ed' = IF directory = <<>> THEN [ed EXCEPT !.modal = "", !.action = ""]
             ELSE ExportCalled([ed EXCEPT !.settings.output_dir = PathOf(directory)],
                               calls)
    /\ UNCHANGED <<exportVars, rt, sl, tl, inst>>

\* export_icon_pack(self._settings, self._icons)
WindowExportBegin ==
    /\ ed.phase = "exporting"
    /\ calls = ed.entered
    /\ ExportBegin(ed.settings, ed.icons)

\* the rest of _perform_export and of its caller, once export_icon_pack has
\* returned or raised, down to the box that closes the handler
PerformExportEnd ==
    /\ ed.phase = "exporting"
    /\ calls = ed.entered + 1
    /\ pc \in {"returned", "raised"}
    /\ IF pc = "raised"
       THEN /\ ed' = ExportRaised(ed, result, icon_list)
            /\ UNCHANGED <<dirs, files>>
       ELSE LET export_result ==
                    ExportResult(PackRoot(settings),
                                 [i \in 1..Len(targets) |-> targets[i].theme_root])
            IN  IF ed.action = "export"
                THEN /\ ed' = ExportReturned(ed, dirs, export_result, icon_list)
                     /\ UNCHANGED <<dirs, files>>
                ELSE LET r == install_icon_pack(dirs, files, export_result,
                                                InstallRoots(ed.action))
                     IN  /\ dirs' = r.dirs
                         /\ files' = r.files
                         /\ ed' = ExportReturned(ed, dirs, export_result, icon_list)
    /\ UNCHANGED <<pc, settings, icon_list, targets, idx, result, calls, prev, rt, sl, tl, inst>>

\* the disk has the system theme breeze with one icon, or no theme at all
ThemedDisk ==
    [dirs |-> Prefixes(Parent(BreezeIcon)),
     files |-> (BreezeIcon :> [bytes |-> 6])
                   @@ (SysUsr \o <<S_breeze, S_index_theme>> :> [bytes |-> 7])]

WindowStarts ==
    {[stored |-> stored, themed |-> stored.kind = "other"] : stored \in StoredRecents}

InitWindow ==
    /\ \E start \in WindowStarts :
          /\ dirs = WindowDirs \cup (IF start.themed THEN ThemedDisk.dirs ELSE {})
          /\ files = IF start.themed THEN ThemedDisk.files @@ WindowFiles
                     ELSE WindowFiles
          /\ ed = FreshWindow(start.stored)
    /\ ExportIdle
    /\ rt = RtOff
    /\ sl = Off
    /\ tl = Off
    /\ inst = Off

NextWindow ==
    \/ NewProject
    \/ \E path \in {None, ImportedFolder, EmptyFolder}, gtk \in BOOLEAN, qt \in BOOLEAN :
          BaseThemeAccept(path, gtk, qt)
    \/ BaseThemeReject
    \/ OpenProjectFolder
    \/ \E path_str \in FolderAnswers : ProjectFolderChosen(path_str)
    \/ \E k \in 1..RecentLimit : OpenRecentProject(k)
    \/ DismissMessage
    \/ \E edit \in PanelEdits : PanelType(edit)
    \/ PanelCommit
    \/ WindowAddIcon
    \/ EditMetadata
    \/ \E updated \in DialogAnswers : MetadataAnswered(updated)
    \/ ExportPack
    \/ InstallPackLocal
    \/ InstallPackSystem
    \/ \E directory \in ExportDirectoryAnswers : ExportDirectoryChosen(directory)
    \/ WindowExportBegin
    \/ ExportPrepare
    \/ ExportCopy
    \/ ExportDescriptors
    \/ PerformExportEnd

SpecWindow == InitWindow /\ [][NextWindow]_vars

----------------------------------------------------------------------------
(* C24 *)

----------------------------------------------------------------------------
(* C29 *)

\* the part of C29 about the call of export_icon_pack: the window makes it
\* with its own settings and icon list, the list not empty, the metadata
\* confirmed and name and author not empty
C29_ExportCallGuarded ==
    [][ (calls' # calls)
           => /\ ed.phase = "exporting"
              /\ settings' = ed.settings
              /\ icon_list' = ed.icons
              /\ icon_list' # <<>>
              /\ ed.metadata_confirmed
              /\ settings'.name # <<>>
              /\ settings'.author # <<>> ]_vars

\* the disk is written by export_icon_pack alone: a handler that ends on a
\* cancelled dialog, on the box "Add icons" or on the box "Export failed"
\* installs nothing
C29_OnlyTheExportWrites ==
    [][ (dirs' # dirs \/ files' # files)
           => ed.phase = "exporting" /\ pc \in {"prepare", "copy", "descriptors"} ]_vars

\* no export made from the window returns, so that no install is attempted
C29_NoWindowExportReturns == pc # "returned"

\* an install handler has ended on a failed export of a project whose
\* metadata was confirmed in the dialog of _ensure_metadata
C29_FailedInstallReached ==
    /\ ed.phase = "window"
    /\ ed.modal = ExportFailedBox
    /\ ed.action = "install local"
    /\ ed.metadata_confirmed
    /\ ed.panel.name # ed.settings.name

----------------------------------------------------------------------------
(* exports in which a copy fails *)

\* a source that exists and is a directory
DirectorySource == <<S_in>>

\* "f" and "F " have the same slug
StagePool ==
    {IconDefinition(<<"f">>, RasterA, NoneStr), IconDefinition(<<"g">>, DirectorySource, NoneStr),
     IconDefinition(<<"h">>, None, NoneStr), IconDefinition(<<"v">>, VectorA, NoneStr),
     IconDefinition(<<"f">>, ExportedScalable, NoneStr),
     IconDefinition(<<"F"," ">>, RasterB, NoneStr)}

StageIconLists == UNION {[1..n -> StagePool] : n \in 0..MaxIcons}

\* output_dir is a fresh directory, or a path below the regular file RasterA
StageSettings ==
    {PackSettings(<<"m","y"," ","P">>, S_author, DefaultVersion, <<>>, S_breeze,
                  sz, od, tg) :
        sz \in {<<32>>, <<32, 16>>}, od \in {<<S_out>>, RasterA}, tg \in {<<>>, <<S_kde>>}}

\* a directory where the export to kde writes its index.theme
IndexThemeDirectory ==
    <<S_out, <<"m","y","-","p">>, S_kde, <<"m","y"," ","P">>, S_index_theme>>

\* the disk before the call: the artwork alone, or the artwork and the
\* scalable file an earlier export to kde has left, or the artwork and a
\* directory in the place of the index.theme of kde
InitStages ==
    /\ \/ dirs = InitDirs /\ files = InitFiles
       \/ /\ dirs = InitDirs \cup Prefixes(Parent(ExportedScalable))
          /\ files = (ExportedScalable :> [bytes |-> 1]) @@ InitFiles
       \/ /\ dirs = InitDirs \cup Prefixes(IndexThemeDirectory)
          /\ files = InitFiles
    /\ ExportIdle
    /\ rt = RtOff
    /\ sl = Off
    /\ tl = Off
    /\ inst = Off
    /\ ed = Off

NextStages ==
    \/ \E st \in StageSettings, icons \in StageIconLists :
          calls = 0 /\ ExportBegin(st, icons)
    \/ ExportPrepare
    \/ ExportCopy
    \/ ExportDescriptors

SpecStages == InitStages /\ [][NextStages]_vars

----------------------------------------------------------------------------
(* C25 *)

\* the order of the stages of one call
StageOrder ==
    {<<"idle", "prepare">>, <<"idle", "raised">>, <<"prepare", "copy">>,
     <<"prepare", "raised">>,
     <<"copy", "copy">>, <<"copy", "descriptors">>, <<"copy", "raised">>,
     <<"descriptors", "returned">>, <<"descriptors", "raised">>}

\* paths whose content differs between two file maps
Written(before, after) ==
    {p \in DOMAIN after : p \notin DOMAIN before \/ after[p] # before[p]}

IsDescriptor(p) == p[Len(p)] = S_descriptor

\* every directory of the layout and every index.theme is on disk
LayoutPrepared(ds, fl) ==
    \A T \in ResolvedTargets :
        /\ LayoutTargetRoot(T) \o <<S_scalable, S_apps>> \in ds
        /\ \A s \in Sizes :
              LayoutTargetRoot(T) \o <<IntToStr(s) \o <<"x">> \o IntToStr(s), S_apps>> \in ds
        /\ LayoutTargetRoot(T) \o <<S_index_theme>> \in DOMAIN fl

\* the errors of a copy: the source is a directory, or is the file the copy
\* is to write
CopyErrors == {"IsADirectoryError", "SameFileError"}

\* the copy of the icon at idx is about to fail
CopyFails ==
    /\ pc = "copy"
    /\ idx <= Len(icon_list)
    /\ icon_list[idx].source_path # None
    /\ \/ icon_list[idx].source_path \in dirs
       \/ icon_list[idx].source_path \in DOMAIN files /\ SourceIsDestination

\* the call has ended in a copy that failed
CopyFailed == result \in CopyErrors /\ idx > 1

\* C25: the stages of an export run in one order: the directories and the
\* index.theme files first, then the copies, one icon after the other in list
\* order, the descriptors last; a copy that fails ends the call with its
\* error, removes nothing that was created, and the call writes no
\* stromschlag.yaml.
C25_StagesInOrderNoRollback ==
    /\ [][ (<<pc, pc'>> \in StageOrder) ]_vars
    /\ [][ pc = "prepare" =>
              /\ pc' = "copy" => LayoutPrepared(dirs', files')
              /\ \A p \in Written(files, files') : p[Len(p)] = S_index_theme
              /\ \A p \in DOMAIN files : p \in DOMAIN files'
              /\ dirs \subseteq dirs' ]_vars
    /\ [][ pc = "copy" =>
              /\ dirs' = dirs
              /\ idx' = idx + 1
              /\ \A p \in DOMAIN files : p \in DOMAIN files'
              /\ \A p \in Written(files, files') :
                    p[Len(p)] = icon_filename(icon_list[idx].name) ]_vars
    /\ [][ pc # "descriptors" => \A p \in Written(files, files') : ~IsDescriptor(p) ]_vars
    /\ [][ CopyFails <=> (pc = "copy" /\ pc' = "raised") ]_vars
    /\ [][ CopyFails =>
              /\ result' \in CopyErrors
              /\ dirs' = dirs
              /\ \A p \in DOMAIN files :
                    p \in DOMAIN files'
                    /\ (files'[p] # files[p] => p[Len(p)] = icon_filename(icon_list[idx].name))
            ]_vars
    /\ [](CopyFailed =>
              /\ pc = "raised"
              /\ LayoutPrepared(dirs, files)
              /\ \A i \in 1..(idx - 2) :
                    RasterSource(icon_list[i]) =>
                        \A T \in ResolvedTargets :
                            LayoutScalableFile(T, icon_list[i]) \in DOMAIN files
              /\ \A p \in DOMAIN files : IsDescriptor(p) => p \in DOMAIN prev.files)

\* the copy of the second icon has failed after the first icon was copied
C25_Witness ==
    /\ result = "IsADirectoryError"
    /\ pc = "raised"
    /\ Len(icon_list) = 2
    /\ idx = 3
    /\ icon_list[1].source_path = RasterA
    /\ \A T \in ResolvedTargets : LayoutScalableFile(T, icon_list[1]) \in DOMAIN files

----------------------------------------------------------------------------
(* C26, C27 *)

\* the source_path entries of the descriptor in the root of target T, by
\* position in the icon list; None for an entry without one
RecordedSource(T, i) ==
    LET doc == files[DescriptorAt(LayoutTargetRoot(T))].yaml
    IN  IF "source_path" \in DOMAIN doc.icons[i] THEN doc.icons[i].source_path ELSE NoneStr

\* the descriptor of target T is on disk and has one entry per icon
TargetDescriptorWritten(T) ==
    /\ DescriptorExists(LayoutTargetRoot(T))
    /\ "icons" \in DOMAIN files[DescriptorAt(LayoutTargetRoot(T))].yaml
    /\ Len(files[DescriptorAt(LayoutTargetRoot(T))].yaml.icons) = Len(icon_list)

\* two icons of the list, the second later, with different names, one slug
\* and resolvable sources
Colliding(i, j) ==
    /\ i < j
    /\ icon_list[i].name # icon_list[j].name
    /\ SameFilename(icon_list[i], icon_list[j])
    /\ Resolvable(icon_list[i])
    /\ Resolvable(icon_list[j])

\* C26: after an export with two such icons they have one output filename,
\* every bucket both were copied to holds the bytes of the later one, and in
\* the descriptor of every target both entries have the source_path of that
\* one file in scalable/apps.
C26_CollidingIconsShareOneFile ==
    AfterExport =>
        \A i, j \in 1..Len(icon_list) :
            Colliding(i, j) =>
                /\ icon_filename(icon_list[i].name) = icon_filename(icon_list[j].name)
                /\ \A T \in ResolvedTargets :
                      /\ ~OverwrittenLater(j) =>
                            /\ files[LayoutScalableFile(T, icon_list[i])]
                                   = files[icon_list[j].source_path]
                            /\ (RasterSource(icon_list[i]) /\ RasterSource(icon_list[j])) =>
                                  \A s \in Sizes :
                                      files[LayoutSizeFile(T, s, icon_list[i])]
                                          = files[icon_list[j].source_path]
                      /\ TargetDescriptorWritten(T)
                      /\ RecordedSource(T, i) = PathStr(LayoutScalableFile(T, icon_list[i]))
                      /\ RecordedSource(T, j) = PathStr(LayoutScalableFile(T, icon_list[i]))

\* what holds of the files: the shared filename and the bytes of the later icon
C26_LastWriterWins ==
    AfterExport =>
        \A i, j \in 1..Len(icon_list) :
            (Colliding(i, j) /\ ~OverwrittenLater(j)) =>
                /\ icon_filename(icon_list[i].name) = icon_filename(icon_list[j].name)
                /\ \A T \in ResolvedTargets :
                      /\ files[LayoutScalableFile(T, icon_list[i])]
                             = files[icon_list[j].source_path]
                      /\ (RasterSource(icon_list[i]) /\ RasterSource(icon_list[j])) =>
                            \A s \in Sizes :
                                files[LayoutSizeFile(T, s, icon_list[i])]
                                    = files[icon_list[j].source_path]

\* C27: after an export that returned, in the descriptor of every target an
\* entry has a source_path exactly when its icon has a resolvable source, that
\* path is <target root>/scalable/apps/<slug>.png, and a file is there.  No
\* export of a non-empty icon list returns (ExportDescriptors ends in the
\* TypeError of save_project), so no state meets the condition.
C27_RecordedSourcesExist ==
    (AfterExport /\ pc = "returned") =>
        \A T \in ResolvedTargets :
            /\ TargetDescriptorWritten(T)
            /\ \A i \in 1..Len(icon_list) :
                  /\ (RecordedSource(T, i) # NoneStr) <=> Resolvable(icon_list[i])
                  /\ Resolvable(icon_list[i]) =>
                        /\ RecordedSource(T, i)
                               = PathStr(LayoutScalableFile(T, icon_list[i]))
                        /\ LayoutScalableFile(T, icon_list[i]) \in DOMAIN files

\* no export of a non-empty icon list returns
C27_NoExportReturns == AfterExport => pc = "raised"

\* what holds of the files: every icon with a resolvable source has a file at
\* <target root>/scalable/apps/<slug>.png once the copies are done
C27_ScalableCopyExists ==
    AfterExport =>
        \A T \in ResolvedTargets : \A i \in 1..Len(icon_list) :
            Resolvable(icon_list[i]) => LayoutScalableFile(T, icon_list[i]) \in DOMAIN files

----------------------------------------------------------------------------
(* C28 *)

\* the entries _collect_icon_entries finds under the theme root that was
\* discovered
EntriesUnderRoot ==
    _collect_icon_entries(dirs, files, tl.links, RegistryListing, <<S_png, S_svg, S_svgz>>,
                          tl.root, NoLimit)

\* load_icon_blueprint has returned a BlueprintLoadResult
BlueprintReturned == tl.phase = "loaded" /\ tl.result.err = "ok"

\* C28: in every BlueprintLoadResult that load_icon_blueprint returns,
\* needs_selection is true exactly when icons is empty and exactly when
\* source_theme is None; and when the theme root that is discovered holds no
\* icon entries the call returns needs_selection=True with no icons and no
\* source theme, whatever the later preferred themes hold.
C28_NeedsSelectionIffNothingLoaded ==
    /\ BlueprintReturned =>
          /\ tl.result.needs_selection <=> (tl.result.icons = <<>>)
          /\ tl.result.needs_selection <=> (tl.result.source_theme = NoneStr)
    /\ (tl.phase = "loaded" /\ tl.root # None /\ EntriesUnderRoot = <<>>) =>
          /\ tl.result.err = "ok"
          /\ tl.result.needs_selection
          /\ tl.result.icons = <<>>
          /\ tl.result.source_theme = NoneStr

\* the first preferred theme, adwaita, is on disk without icons and is the
\* root that is discovered; the second, breeze, is on disk with an icon file
C28_Witness ==
    /\ BlueprintReturned
    /\ tl.themes = <<S_adwaita, S_breeze>>
    /\ tl.root # None
    /\ tl.root[Len(tl.root)] = S_adwaita
    /\ BreezeIcon \in DOMAIN files
    /\ _discover_theme_root(dirs, files, tl.links, <<S_breeze>>, tl.extras) # None
    /\ tl.result.needs_selection

----------------------------------------------------------------------------
(* the recent projects under record, remove and clear *)

\* the k-th project directory
RecentPath(k) == <<(<<"/">>), <<"p">>, IntToStr(k)>>

RecentDirs == {RecentPath(k) : k \in 1..MaxRecentPaths}

\* the entries an operation may name: the first and the last of the list
NamedEntries(recent) == IF recent = <<>> THEN {} ELSE {recent[1], recent[Len(recent)]}

\* _record_recent_project(path): a project not recorded before, the
\* descriptor inside it, or one that is in the list
RecordRecent(path) ==
    /\ ed.phase = "recent"
    /\ LET fresh == path \in {RecentPath(ed.fresh + 1),
                              RecentPath(ed.fresh + 1) \o <<S_descriptor>>}
           target == IF path \in dirs THEN path ELSE Parent(path)
       IN  /\ fresh \/ PathStr(path) \in NamedEntries(ed.recent)
           /\ IF fresh THEN ed.fresh < MaxRecentPaths ELSE ed.ops < MaxRecentOps
           /\ ed' = [phase |-> "recent",
                     recent |-> _record_recent_project(ed.recent, dirs, path),
                     recorded |-> PathStr(target), live |-> TRUE,
                     fresh |-> IF fresh THEN ed.fresh + 1 ELSE ed.fresh,
                     ops |-> IF fresh THEN ed.ops ELSE ed.ops + 1,
                     last |-> "record"]
    /\ UNCHANGED <<exportVars, rt, sl, tl, inst>>

\* _remove_recent_entry(path_str) for an entry of the list
RemoveRecent(path_str) ==
    /\ ed.phase = "recent"
    /\ path_str \in NamedEntries(ed.recent)
    /\ ed.ops < MaxRecentOps
    /\ ed' = [ed EXCEPT !.recent = _remove_recent_entry(ed.recent, path_str),
                        !.live = ed.live /\ path_str # ed.recorded,
                        !.ops = ed.ops + 1, !.last = "remove"]
    /\ UNCHANGED <<exportVars, rt, sl, tl, inst>>

\* _clear_recent_projects() on a list that is not empty
ClearRecent ==
    /\ ed.phase = "recent"
    /\ ed.recent # <<>>
    /\ ed.ops < MaxRecentOps
    /\ ed' = [ed EXCEPT !.recent = _clear_recent_projects(ed.recent),
                        !.live = FALSE, !.ops = ed.ops + 1, !.last = "clear"]
    /\ UNCHANGED <<exportVars, rt, sl, tl, inst>>

InitRecent ==
    /\ dirs = UNION {Prefixes(d) : d \in RecentDirs}
    /\ files = [p \in {d \o <<S_descriptor>> : d \in RecentDirs} |-> [yaml |-> <<>>]]
    /\ ExportIdle
    /\ rt = RtOff
    /\ sl = Off
    /\ tl = Off
    /\ inst = Off
    /\ ed = [phase |-> "recent", recent |-> <<>>, recorded |-> NoneStr, live |-> FALSE,
             fresh |-> 0, ops |-> 0, last |-> ""]

NextRecent ==
    \/ \E path \in RecentDirs \cup {d \o <<S_descriptor>> : d \in RecentDirs} :
          RecordRecent(path)
    \/ \E path_str \in {PathStr(d) : d \in RecentDirs} : RemoveRecent(path_str)
    \/ ClearRecent

SpecRecent == InitRecent /\ [][NextRecent]_vars

----------------------------------------------------------------------------
(* C30 *)

NoDuplicates(seq) == \A i, j \in 1..Len(seq) : seq[i] = seq[j] => i = j

PositionIn(seq, e) == CHOOSE i \in 1..Len(seq) : seq[i] = e

\* the entries of `new` from index `from` on are entries of `old`, in the
\* order they have there
RelativeOrderKept(old, new, from) ==
    /\ \A i \in from..Len(new) : \E k \in 1..Len(old) : old[k] = new[i]
    /\ \A i, j \in from..Len(new) :
          i < j => PositionIn(old, new[i]) < PositionIn(old, new[j])

\* C30 as stated: after any sequence of the three operations the list has at
\* most 10 entries and no duplicates, the project recorded last is at index
\* 0, and the other entries are in the order they had before.
C30_RecentListAsStated ==
    /\ [](Len(ed.recent) <= RecentLimit /\ NoDuplicates(ed.recent))
    /\ [](ed.recorded # NoneStr => (ed.recent # <<>> /\ ed.recent[1] = ed.recorded))
    /\ [][ RelativeOrderKept(ed.recent, ed'.recent, IF ed'.last = "record" THEN 2 ELSE 1) ]_vars

\* C30 amended: the same, with the project recorded last at index 0 as long
\* as it has not been removed and the list has not been cleared since it was
\* recorded.
C30_RecentListBoundedDistinctOrdered ==
    /\ [](Len(ed.recent) <= RecentLimit /\ NoDuplicates(ed.recent))
    /\ []((ed.recorded # NoneStr /\ ed.live) =>
              (ed.recent # <<>> /\ ed.recent[1] = ed.recorded))
    /\ []((ed.recorded # NoneStr /\ ~ed.live) =>
              \A i \in 1..Len(ed.recent) : ed.recent[i] # ed.recorded)
    /\ [][ RelativeOrderKept(ed.recent, ed'.recent, IF ed'.last = "record" THEN 2 ELSE 1) ]_vars

\* an eleventh project has been recorded into a full list, an entry was
\* recorded again and one was removed
C30_Witness ==
    /\ ed.phase = "recent"
    /\ ed.fresh > RecentLimit
    /\ ed.ops >= 2
    /\ ed.live
    /\ Len(ed.recent) = RecentLimit - 1
    /\ ed.recent[1] = PathStr(RecentPath(2))

====
